---- MODULE Spec2Model ----
(***************************************************************************)
(* citePY: identifier classification, multi-source metadata aggregation    *)
(* and CSL record construction (app/data_fetcher.py, app/csl_converter.py, *)
(* app/main.py).                                                           *)
(*                                                                         *)
(* Python strings that the code inspects character by character            *)
(* (identifiers) are sequences of one-character strings.  Python dicts are *)
(* functions whose DOMAIN is the set of keys present; `k in d` is          *)
(* k \in DOMAIN d.  Python None is the value None below.                   *)
(***************************************************************************)
EXTENDS Integers, Sequences, FiniteSets, TLC

VARIABLES
    raw,            \* SpecId: the string handed to the classifier functions
    cleaned,        \* SpecId: result of clean_identifier(raw), or NotRun
    kind,           \* SpecId: result of identify_identifier_type(raw), or "NotRun"
    validation,     \* SpecId: response of the /api/validate handler
    API_CONFIG,     \* data_fetcher.API_CONFIG (headers and params per provider)
    citation_cache, \* main.citation_cache: cache_key -> response
    pc,             \* where the request being served stands
    request,        \* the IdentifierRequest being served
    gc_identifier,     \* generate_citation: clean_identifier(request.identifier)
    gc_style,          \* generate_citation: request.style.lower()
    gc_identifier_type, \* generate_citation: identify_identifier_type(identifier)
    fm_metadata,       \* the bag fetch_doi_metadata / fetch_isbn_metadata builds
    calls,          \* the api_name of every fetch_from_api call, in order
    data,           \* crossref_data, datacite_data, ...: api_name -> returned value
    raised,         \* the exception that left the handler, "None" when none did
    gc_csl_data,       \* generate_citation: convert_to_csl_json(metadata)
    response,       \* the response returned to the caller
    status,         \* HTTP status of the response, 0 while the request is served
    bag,            \* SpecCsl: the bag handed to convert_to_csl_json
    record,         \* SpecCsl: what convert_to_csl_json returned for it
    handlers,        \* SpecService: the locals of each running generate_citation
    sent            \* SpecFetch: the requests.get calls made by fetch_from_api, in order

idVars == <<raw, cleaned, kind, validation>>

globalVars == <<API_CONFIG, citation_cache>>

reqVars == <<pc, request, gc_identifier, gc_style, gc_identifier_type, fm_metadata, calls,
             data, raised, gc_csl_data, response, status>>

cslVars == <<bag, record>>

svcVars == <<handlers>>

netVars == <<sent>>

vars == <<raw, cleaned, kind, validation, API_CONFIG, citation_cache, pc, request,
          gc_identifier, gc_style, gc_identifier_type, fm_metadata, calls, data, raised,
          gc_csl_data, response, status, bag, record, handlers, sent>>

(***************************************************************************)
(* Characters and string helpers                                           *)
(***************************************************************************)
Digits == {"0", "1", "2", "3", "4", "5", "6", "7", "8", "9"}

LowerLetters ==
    {"a", "b", "c", "d", "e", "f", "g", "h", "i", "j", "k", "l", "m",
     "n", "o", "p", "q", "r", "s", "t", "u", "v", "w", "x", "y", "z"}

UpperLetters ==
    {"A", "B", "C", "D", "E", "F", "G", "H", "I", "J", "K", "L", "M",
     "N", "O", "P", "Q", "R", "S", "T", "U", "V", "W", "X", "Y", "Z"}

\* what \s matches and what str.strip() removes, within the model's alphabet
Whitespace == {" ", "\t"}

NotRun == <<"not", "run">>

StartsWith(s, p) == Len(s) >= Len(p) /\ SubSeq(s, 1, Len(p)) = p

\* positions at which p occurs in s
Occurrences(s, p) ==
    {i \in 1..(Len(s) - Len(p) + 1) : SubSeq(s, i, i + Len(p) - 1) = p}

MinOf(S) == CHOOSE m \in S : \A n \in S : m <= n

MaxOf(S) == CHOOSE m \in S : \A n \in S : m >= n

\* number of leading characters of s that are digits
DigitRun(s) ==
    LET nondigit == {i \in 1..Len(s) : s[i] \notin Digits}
    IN  IF nondigit = {} THEN Len(s) ELSE MinOf(nondigit) - 1

\* str.strip()
Strip(s) ==
    LET keep == {i \in 1..Len(s) : s[i] \notin Whitespace}
    IN  IF keep = {} THEN <<>> ELSE SubSeq(s, MinOf(keep), MaxOf(keep))

\* re.sub(r'[-\s]', '', s)
RemoveHyphensAndSpaces(s) ==
    LET Keep(c) == c \notin ({"-"} \cup Whitespace) IN SelectSeq(s, Keep)

\* str.isdigit() on a string of the model's alphabet (false on the empty string)
IsDigitString(s) == Len(s) > 0 /\ \A i \in 1..Len(s) : s[i] \in Digits

HTTP_PREFIX == <<"h", "t", "t", "p", ":", "/", "/">>

HTTPS_PREFIX == <<"h", "t", "t", "p", "s", ":", "/", "/">>

DOI_ORG == <<"d", "o", "i", ".", "o", "r", "g", "/">>

(***************************************************************************)
(* data_fetcher.py: clean_identifier, is_valid_doi, is_valid_isbn,         *)
(* identify_identifier_type                                                *)
(***************************************************************************)

\* re.search(r'doi\.org/(.+)$', s): the leftmost "doi.org/" that is followed
\* by at least one character; group(1) is everything after it.
DoiOrgMatches(s) == {i \in Occurrences(s, DOI_ORG) : i + Len(DOI_ORG) <= Len(s)}

\* re.match(r'^\d+[-\s]', s)
StartsLikeIsbn(s) ==
    LET n == DigitRun(s)
    IN  n >= 1 /\ Len(s) > n /\ s[n + 1] \in ({"-"} \cup Whitespace)

clean_identifier(identifier) ==
    LET afterUrl ==
            IF StartsWith(identifier, HTTP_PREFIX) \/ StartsWith(identifier, HTTPS_PREFIX)
            THEN IF Occurrences(identifier, DOI_ORG) # {} /\ DoiOrgMatches(identifier) # {}
                 THEN SubSeq(identifier,
                             MinOf(DoiOrgMatches(identifier)) + Len(DOI_ORG),
                             Len(identifier))
                 ELSE identifier
            ELSE identifier
        afterIsbn ==
            IF StartsLikeIsbn(afterUrl) THEN RemoveHyphensAndSpaces(afterUrl) ELSE afterUrl
    IN  Strip(afterIsbn)

\* the character class [-._;()/:A-Z0-9] under re.IGNORECASE
DOI_SUFFIX_CHARS ==
    {"-", ".", "_", ";", "(", ")", "/", ":"} \cup UpperLetters \cup LowerLetters \cup Digits

DOI_MIN_DIGITS == 4

DOI_MAX_DIGITS == 9

\* re.match(r"^10\.\d{4,9}/[-._;()/:A-Z0-9]+$", doi, re.IGNORECASE)
is_valid_doi(doi) ==
    /\ StartsWith(doi, <<"1", "0", ".">>)
    /\ LET rest == SubSeq(doi, 4, Len(doi))
           n == DigitRun(rest)
       IN  /\ n >= DOI_MIN_DIGITS
           /\ \E k \in DOI_MIN_DIGITS..DOI_MAX_DIGITS :
                /\ k <= n
                /\ Len(rest) >= k + 2
                /\ rest[k + 1] = "/"
                /\ \A i \in (k + 2)..Len(rest) : rest[i] \in DOI_SUFFIX_CHARS

ISBN10_LEN == 10

ISBN13_LEN == 13

\* a variant of the ISBN test that compares the last character with 'X'
\* without upper-casing it
is_valid_isbn_UpperOnly(isbn) ==
    LET s == RemoveHyphensAndSpaces(isbn)
    IN  IF Len(s) = ISBN10_LEN
        THEN IsDigitString(SubSeq(s, 1, Len(s) - 1))
                /\ (s[Len(s)] = "X" \/ s[Len(s)] \in Digits)
        ELSE Len(s) = ISBN13_LEN /\ IsDigitString(s)

\* isbn = re.sub(r'[-\s]', '', isbn), then the ISBN-10 and ISBN-13 tests
is_valid_isbn(isbn) ==
    LET s == RemoveHyphensAndSpaces(isbn)
    IN  IF Len(s) = ISBN10_LEN
        THEN IF ~IsDigitString(SubSeq(s, 1, Len(s) - 1))
             THEN FALSE
             ELSE IF s[Len(s)] \in {"X", "x"} \/ s[Len(s)] \in Digits
                  THEN TRUE
                  ELSE FALSE
        ELSE IF Len(s) = ISBN13_LEN
             THEN IsDigitString(s)
             ELSE FALSE

\* 'doi', 'isbn' or None (the string "None")
identify_identifier_type(identifier) ==
    LET id == clean_identifier(identifier)
    IN  IF is_valid_doi(id) THEN "doi"
        ELSE IF is_valid_isbn(id) THEN "isbn"
        ELSE "None"

(***************************************************************************)
(* main.py: the /api/validate handler                                      *)
(***************************************************************************)
validate_identifier(request_identifier) ==
    LET identifier == clean_identifier(request_identifier)
        identifier_type == identify_identifier_type(identifier)
    IN  IF identifier_type # "None"
        THEN [identifier |-> identifier, valid |-> TRUE, type |-> identifier_type,
              error |-> "None"]
        ELSE [identifier |-> identifier, valid |-> FALSE, type |-> "None",
              error |-> "Invalid DOI or ISBN format"]

(***************************************************************************)
(* Python values                                                           *)
(***************************************************************************)
\* None where a dict is expected (a dict never has the key "None")
None == [None |-> TRUE]

\* None where a character string is expected (no character is "None")
NoneStr == <<"None">>

EmptyDict == <<>>

IsNone(d) == "None" \in DOMAIN d

\* truthiness of an optional dict: neither None nor {}
Truthy(d) == ~IsNone(d) /\ DOMAIN d # {}

\* d[k] = v
Put(d, k, v) == (k :> v) @@ d

\* d.get(k, default)
GetOr(d, k, default) == IF k \in DOMAIN d THEN d[k] ELSE default

\* str.split(): the maximal runs of non-whitespace characters
RECURSIVE SplitWs(_)
SplitWs(s) ==
    IF s = <<>> THEN <<>>
    ELSE IF Head(s) \in Whitespace THEN SplitWs(Tail(s))
    ELSE LET ws == {i \in 1..Len(s) : s[i] \in Whitespace}
             n == IF ws = {} THEN Len(s) ELSE MinOf(ws) - 1
         IN  <<SubSeq(s, 1, n)>> \o SplitWs(SubSeq(s, n + 1, Len(s)))

\* str.split(c): the segments between occurrences of c (always at least one)
RECURSIVE SplitOn(_, _)
SplitOn(s, c) ==
    LET at == {i \in 1..Len(s) : s[i] = c}
    IN  IF at = {} THEN <<s>>
        ELSE <<SubSeq(s, 1, MinOf(at) - 1)>> \o SplitOn(SubSeq(s, MinOf(at) + 1, Len(s)), c)

\* ' '.join(tokens)
RECURSIVE JoinSpaces(_)
JoinSpaces(tokens) ==
    IF tokens = <<>> THEN <<>>
    ELSE IF Len(tokens) = 1 THEN tokens[1]
    ELSE tokens[1] \o <<" ">> \o JoinSpaces(Tail(tokens))

YEAR_DIGITS == 4

\* re.search(r'\d{4}', s): the start of the leftmost run of four digits, 0 if none
YearMatch(s) ==
    LET at == {i \in 1..(Len(s) - YEAR_DIGITS + 1) :
                 \A j \in i..(i + YEAR_DIGITS - 1) : s[j] \in Digits}
    IN  IF at = {} THEN 0 ELSE MinOf(at)

\* year_match.group(0)
YearGroup(s) == SubSeq(s, YearMatch(s), YearMatch(s) + YEAR_DIGITS - 1)

\* {'date-parts': [[year]]}
DateParts(year) == "date-parts" :> <<<<year>>>>

\* the family/given split applied to every plain author name:
\*   {'family': a.split()[-1] if ' ' in a else a,
\*    'given': ' '.join(a.split()[:-1]) if ' ' in a else ''}
\* a name made of spaces only has no token: a.split()[-1] raises IndexError
NameHasSpace(a) == \E i \in 1..Len(a) : a[i] = " "

NameRaises(a) == NameHasSpace(a) /\ SplitWs(a) = <<>>

SplitName(a) ==
    LET tokens == SplitWs(a)
    IN  [family |-> IF NameHasSpace(a) THEN tokens[Len(tokens)] ELSE a,
         given |-> IF NameHasSpace(a)
                   THEN JoinSpaces(SubSeq(tokens, 1, Len(tokens) - 1))
                   ELSE <<>>]

\* the result of one provider section of an aggregation: the bag, and the
\* exception that left the function ("None" when none did)
Ok(md) == [metadata |-> md, raised |-> "None"]

Raise(md, exception) == [metadata |-> md, raised |-> exception]

(***************************************************************************)
(* data_fetcher.py: fetch_from_api.  What the network does on one call is  *)
(* an outcome: a failure of requests.get / raise_for_status / .json(), or  *)
(* the decoded JSON body.                                                   *)
(***************************************************************************)
FailureKinds == {"network_error", "http_error", "decode_error"}

Failed(failure) == [kind |-> failure, json |-> None]

Decoded(json) == [kind |-> "ok", json |-> json]

\* every except branch returns None; otherwise response.json()
fetch_from_api(api_name, identifier, outcome) ==
    IF outcome.kind = "ok" THEN outcome.json ELSE None

(***************************************************************************)
(* data_fetcher.py: fetch_doi_metadata, one operator per provider section  *)
(***************************************************************************)
NewBag(identifier, identifier_type) ==
    ("identifier" :> identifier) @@ ("identifier_type" :> identifier_type)
        @@ ("sources" :> <<>>)

AddSource(md, name) == Put(md, "sources", Append(md["sources"], name))

CrossrefSection(metadata, crossref_data) ==
    IF ~(Truthy(crossref_data) /\ "message" \in DOMAIN crossref_data)
    THEN Ok(metadata)
    ELSE
      LET message == crossref_data["message"]
          m0 == AddSource(Put(metadata, "crossref", message), "crossref")
          m1 == IF "title" \in DOMAIN message
                THEN Put(m0, "title", message["title"][1]) ELSE m0
          m2 == IF "author" \in DOMAIN message
                THEN Put(m1, "authors", message["author"]) ELSE m1
          m3 == IF "published-print" \in DOMAIN message
                THEN Put(m2, "published_date", message["published-print"])
                ELSE IF "published-online" \in DOMAIN message
                     THEN Put(m2, "published_date", message["published-online"])
                     ELSE m2
          m4 == IF "publisher" \in DOMAIN message
                THEN Put(m3, "publisher", message["publisher"]) ELSE m3
          m5 == IF "type" \in DOMAIN message
                THEN Put(m4, "type", message["type"]) ELSE m4
      IN  IF "title" \in DOMAIN message /\ Len(message["title"]) = 0
          THEN Raise(metadata, "IndexError")      \* message['title'][0]
          ELSE Ok(m5)

\* for date in dates: if date['dateType'] == 'Issued': year = date['date'][:4]; break
\* result: "KeyError", "none" (no Issued entry) or the year
RECURSIVE DataciteIssued(_)
DataciteIssued(dates) ==
    IF dates = <<>> THEN [outcome |-> "none", year |-> <<>>]
    ELSE LET date == Head(dates)
         IN  IF "dateType" \notin DOMAIN date
             THEN [outcome |-> "KeyError", year |-> <<>>]
             ELSE IF date["dateType"] = "Issued"
                  THEN IF "date" \notin DOMAIN date
                       THEN [outcome |-> "KeyError", year |-> <<>>]
                       ELSE [outcome |-> "year",
                             year |-> SubSeq(date["date"], 1,
                                             IF Len(date["date"]) < YEAR_DIGITS
                                             THEN Len(date["date"]) ELSE YEAR_DIGITS)]
                  ELSE DataciteIssued(Tail(dates))

DataciteSection(metadata, datacite_data) ==
    IF ~(/\ Truthy(datacite_data)
         /\ "data" \in DOMAIN datacite_data
         /\ "attributes" \in DOMAIN datacite_data["data"])
    THEN Ok(metadata)
    ELSE
      LET attributes == datacite_data["data"]["attributes"]
          m0 == AddSource(Put(metadata, "datacite", attributes), "datacite")
          useTitle == "title" \notin DOMAIN m0 /\ "titles" \in DOMAIN attributes
          m1 == IF useTitle
                THEN Put(m0, "title", attributes["titles"][1]["title"]) ELSE m0
          m2 == IF "authors" \notin DOMAIN m1 /\ "creators" \in DOMAIN attributes
                THEN Put(m1, "authors",
                         [i \in 1..Len(attributes["creators"]) |->
                            [given |-> GetOr(attributes["creators"][i], "givenName", <<>>),
                             family |-> GetOr(attributes["creators"][i], "familyName", <<>>)]])
                ELSE m1
          useDates == "published_date" \notin DOMAIN m2 /\ "dates" \in DOMAIN attributes
          issued == DataciteIssued(attributes["dates"])
          m3 == IF useDates /\ issued.outcome = "year"
                THEN Put(m2, "published_date", DateParts(issued.year)) ELSE m2
      IN  IF useTitle /\ Len(attributes["titles"]) = 0
          THEN Raise(metadata, "IndexError")      \* titles[0]
          ELSE IF useTitle /\ "title" \notin DOMAIN attributes["titles"][1]
          THEN Raise(metadata, "KeyError")        \* titles[0]['title']
          ELSE IF useDates /\ issued.outcome = "KeyError"
          THEN Raise(metadata, "KeyError")        \* date['dateType'], date['date']
          ELSE Ok(m3)

UnpaywallSection(metadata, unpaywall_data) ==
    IF ~Truthy(unpaywall_data)
    THEN Ok(metadata)
    ELSE
      LET m0 == AddSource(Put(metadata, "unpaywall", unpaywall_data), "unpaywall")
      IN  IF /\ "is_oa" \in DOMAIN unpaywall_data
             /\ unpaywall_data["is_oa"]
             /\ "best_oa_location" \in DOMAIN unpaywall_data
             /\ Truthy(unpaywall_data["best_oa_location"])
          THEN Ok(Put(m0, "open_access_url",
                      GetOr(unpaywall_data["best_oa_location"], "url", NoneStr)))
          ELSE Ok(m0)

(***************************************************************************)
(* data_fetcher.py: fetch_isbn_metadata, one operator per provider section *)
(***************************************************************************)
\* the key f"ISBN:{isbn}" of the Open Library response for the requested isbn
BIBKEY == "ISBN:{isbn}"

\* [split(a) for a in names], and whether some a.split()[-1] raises
SplitNames(names) == [i \in 1..Len(names) |-> SplitName(names[i])]

SomeNameRaises(names) == \E i \in 1..Len(names) : NameRaises(names[i])

OpenlibrarySection(metadata, openlibrary_data) ==
    IF ~(Truthy(openlibrary_data) /\ BIBKEY \in DOMAIN openlibrary_data)
    THEN Ok(metadata)
    ELSE
      LET book_data == openlibrary_data[BIBKEY]
          m0 == AddSource(Put(metadata, "openlibrary", book_data), "openlibrary")
          m1 == IF "title" \in DOMAIN book_data
                THEN Put(m0, "title", book_data["title"]) ELSE m0
          names == [i \in 1..Len(book_data["authors"]) |->
                      GetOr(book_data["authors"][i], "name", <<>>)]
          m2 == IF "authors" \in DOMAIN book_data
                THEN Put(m1, "authors", SplitNames(names)) ELSE m1
          usePublishers == "publishers" \in DOMAIN book_data
                              /\ Len(book_data["publishers"]) > 0
          m3 == IF usePublishers
                THEN Put(m2, "publisher", book_data["publishers"][1]["name"]) ELSE m2
          m4 == IF "publish_date" \in DOMAIN book_data
                     /\ YearMatch(book_data["publish_date"]) # 0
                THEN Put(m3, "published_date", DateParts(YearGroup(book_data["publish_date"])))
                ELSE m3
          m5 == IF "number_of_pages" \in DOMAIN book_data
                THEN Put(m4, "page_count", book_data["number_of_pages"]) ELSE m4
      IN  IF "authors" \in DOMAIN book_data /\ SomeNameRaises(names)
          THEN Raise(metadata, "IndexError")      \* a.get('name', '').split()[-1]
          ELSE IF usePublishers /\ "name" \notin DOMAIN book_data["publishers"][1]
          THEN Raise(metadata, "KeyError")        \* publishers[0]['name']
          ELSE Ok(m5)

GoogleBooksSection(metadata, google_data) ==
    IF ~(/\ Truthy(google_data)
         /\ "items" \in DOMAIN google_data
         /\ Len(google_data["items"]) > 0)
    THEN Ok(metadata)
    ELSE IF "volumeInfo" \notin DOMAIN google_data["items"][1]
    THEN Raise(metadata, "KeyError")              \* items[0]['volumeInfo']
    ELSE
      LET book_data == google_data["items"][1]["volumeInfo"]
          m0 == AddSource(Put(metadata, "google_books", book_data), "google_books")
          m1 == IF "title" \notin DOMAIN m0 /\ "title" \in DOMAIN book_data
                THEN Put(m0, "title", book_data["title"]) ELSE m0
          useAuthors == "authors" \notin DOMAIN m1 /\ "authors" \in DOMAIN book_data
          m2 == IF useAuthors
                THEN Put(m1, "authors", SplitNames(book_data["authors"])) ELSE m1
          m3 == IF "publisher" \notin DOMAIN m2 /\ "publisher" \in DOMAIN book_data
                THEN Put(m2, "publisher", book_data["publisher"]) ELSE m2
          m4 == IF /\ "published_date" \notin DOMAIN m3
                   /\ "publishedDate" \in DOMAIN book_data
                   /\ YearMatch(book_data["publishedDate"]) # 0
                THEN Put(m3, "published_date", DateParts(YearGroup(book_data["publishedDate"])))
                ELSE m3
          m5 == IF "page_count" \notin DOMAIN m4 /\ "pageCount" \in DOMAIN book_data
                THEN Put(m4, "page_count", book_data["pageCount"]) ELSE m4
      IN  IF useAuthors /\ SomeNameRaises(book_data["authors"])
          THEN Raise(metadata, "IndexError")      \* a.split()[-1]
          ELSE Ok(m5)

WorldcatSection(metadata, worldcat_data) ==
    IF ~(/\ Truthy(worldcat_data)
         /\ "list" \in DOMAIN worldcat_data
         /\ Len(worldcat_data["list"]) > 0)
    THEN Ok(metadata)
    ELSE
      LET book_data == worldcat_data["list"][1]
          m0 == AddSource(Put(metadata, "worldcat", book_data), "worldcat")
          m1 == IF "title" \notin DOMAIN m0 /\ "title" \in DOMAIN book_data
                THEN Put(m0, "title", book_data["title"]) ELSE m0
          authors == SplitOn(book_data["author"], ";")
          m2 == IF "authors" \notin DOMAIN m1 /\ "author" \in DOMAIN book_data
                THEN Put(m1, "authors",
                         [i \in 1..Len(authors) |-> SplitName(Strip(authors[i]))])
                ELSE m1
          m3 == IF "publisher" \notin DOMAIN m2 /\ "publisher" \in DOMAIN book_data
                THEN Put(m2, "publisher", book_data["publisher"]) ELSE m2
          m4 == IF "published_date" \notin DOMAIN m3 /\ "year" \in DOMAIN book_data
                THEN Put(m3, "published_date", DateParts(book_data["year"])) ELSE m3
      IN  Ok(m4)

ISBNDB_PLACEHOLDER == "YOUR_ISBNDB_API_KEY"

\* the guard of the optional ISBNdb section
IsbndbConfigured(config) ==
    /\ "headers" \in DOMAIN config["isbndb"]
    /\ "Authorization" \in DOMAIN config["isbndb"]["headers"]
    /\ config["isbndb"]["headers"]["Authorization"] # ISBNDB_PLACEHOLDER

IsbndbSection(metadata, isbndb_data) ==
    IF ~(Truthy(isbndb_data) /\ "book" \in DOMAIN isbndb_data)
    THEN Ok(metadata)
    ELSE
      LET book_data == isbndb_data["book"]
          m0 == AddSource(Put(metadata, "isbndb", book_data), "isbndb")
          m1 == IF "title" \in DOMAIN book_data
                THEN Put(m0, "title", book_data["title"]) ELSE m0
          m2 == IF "authors" \in DOMAIN book_data
                THEN Put(m1, "authors", SplitNames(book_data["authors"])) ELSE m1
          m3 == IF "publisher" \in DOMAIN book_data
                THEN Put(m2, "publisher", book_data["publisher"]) ELSE m2
          m4 == IF "date_published" \in DOMAIN book_data
                     /\ YearMatch(book_data["date_published"]) # 0
                THEN Put(m3, "published_date",
                         DateParts(YearGroup(book_data["date_published"])))
                ELSE m3
          m5 == IF "pages" \in DOMAIN book_data
                THEN Put(m4, "page_count", book_data["pages"]) ELSE m4
      IN  IF "authors" \in DOMAIN book_data /\ SomeNameRaises(book_data["authors"])
          THEN Raise(metadata, "IndexError")      \* a.split()[-1]
          ELSE Ok(m5)

\* metadata['type'] = 'book' before fetch_isbn_metadata returns
IsbnDefaultType(metadata) == Put(metadata, "type", "book")

(***************************************************************************)
(* csl_converter.py                                                        *)
(***************************************************************************)
type_mapping ==
    ("journal-article" :> "article-journal") @@
    ("book-chapter" :> "chapter") @@
    ("book" :> "book") @@
    ("monograph" :> "book") @@
    ("edited-book" :> "book") @@
    ("reference-book" :> "book") @@
    ("proceedings-article" :> "paper-conference") @@
    ("proceedings" :> "paper-conference") @@
    ("conference-paper" :> "paper-conference") @@
    ("report" :> "report") @@
    ("report-series" :> "report") @@
    ("standard" :> "report") @@
    ("dissertation" :> "thesis") @@
    ("dataset" :> "dataset") @@
    ("posted-content" :> "post") @@
    ("journal-issue" :> "article-journal") @@
    ("journal-volume" :> "article-journal") @@
    ("journal" :> "article-journal") @@
    ("book-series" :> "book") @@
    ("book-set" :> "book") @@
    ("book-track" :> "chapter") @@
    ("book-part" :> "chapter") @@
    ("book-section" :> "chapter") @@
    ("proceedings-series" :> "paper-conference") @@
    ("report-component" :> "report") @@
    ("standard-series" :> "report")

DEFAULT_CSL_TYPE == "article-journal"

\* a variant of the lookup whose default is the type of the minimal record
map_crossref_type_to_csl_DefaultArticle(crossref_type) ==
    IF crossref_type \in DOMAIN type_mapping
    THEN type_mapping[crossref_type]
    ELSE "article"

\* type_mapping.get(crossref_type, 'article-journal')
map_crossref_type_to_csl(crossref_type) ==
    IF crossref_type \in DOMAIN type_mapping
    THEN type_mapping[crossref_type]
    ELSE DEFAULT_CSL_TYPE

UNKNOWN_ID == <<"u", "n", "k", "n", "o", "w", "n">>

DOI_RESOLVER == <<"h", "t", "t", "p", "s", ":", "/", "/", "d", "o", "i", ".", "o", "r", "g", "/">>

WordChars == UpperLetters \cup LowerLetters \cup Digits \cup {"_"}

\* length of the longest prefix of s, from position i on, made of characters in cs
RunFrom(s, i, cs) ==
    LET stop == {j \in i..Len(s) : s[j] \notin cs}
    IN  IF stop = {} THEN Len(s) - i + 1 ELSE MinOf(stop) - i

EDITION_WORD ==
    <<{"e", "E"}, {"d", "D"}, {"i", "I"}, {"t", "T"}, {"i", "I"}, {"o", "O"}, {"n", "N"}>>

\* re.search(r'(\d+)\w*\s+edition', s, re.IGNORECASE) matches from digit position i
EditionNameMatchesAt(s, i) ==
    LET afterWord == i + RunFrom(s, i, WordChars)
        spaces == RunFrom(s, afterWord, Whitespace)
        word == afterWord + spaces
    IN  /\ s[i] \in Digits
        /\ spaces >= 1
        /\ word + Len(EDITION_WORD) - 1 <= Len(s)
        /\ \A k \in 1..Len(EDITION_WORD) : s[word + k - 1] \in EDITION_WORD[k]

\* group(1) of that search, NoneStr when it does not match
EditionNameGroup(s) ==
    LET at == {i \in 1..Len(s) : EditionNameMatchesAt(s, i)}
    IN  IF at = {} THEN NoneStr
        ELSE SubSeq(s, MinOf(at), MinOf(at) + RunFrom(s, MinOf(at), Digits) - 1)

\* group(1) of re.search(r'(\d+)', s), NoneStr when it does not match
FirstDigitsGroup(s) ==
    LET at == {i \in 1..Len(s) : s[i] \in Digits}
    IN  IF at = {} THEN NoneStr
        ELSE SubSeq(s, MinOf(at), MinOf(at) + RunFrom(s, MinOf(at), Digits) - 1)

\* the result of a conversion: the record, and the exception raised instead
Built(csl) == [csl |-> csl, raised |-> "None"]

BuildRaises(exception) == [csl |-> EmptyDict, raised |-> exception]

HasCrossref(metadata, key) ==
    "crossref" \in DOMAIN metadata /\ key \in DOMAIN metadata["crossref"]

\* the author entries copied from the Crossref payload: family and given only
CrossrefAuthorEntry(author) ==
    [k \in DOMAIN author \cap {"family", "given"} |-> author[k]]

\* The record is assembled from one piece per assignment to csl[...]; each key
\* is assigned in one place, except URL, whose two assignments are one piece.
convert_doi_metadata_to_csl(metadata) ==
    LET crossrefTitle == "title" \notin DOMAIN metadata /\ HasCrossref(metadata, "title")
        id == "id" :> GetOr(metadata, "identifier", UNKNOWN_ID)
        type == "type" :>
                  (IF HasCrossref(metadata, "type")
                   THEN map_crossref_type_to_csl(metadata["crossref"]["type"])
                   ELSE DEFAULT_CSL_TYPE)
        title == IF "title" \in DOMAIN metadata THEN "title" :> metadata["title"]
                 ELSE IF crossrefTitle
                      THEN "title" :> metadata["crossref"]["title"][1]
                      ELSE EmptyDict
        author == IF "authors" \in DOMAIN metadata THEN "author" :> metadata["authors"]
                  ELSE IF HasCrossref(metadata, "author")
                       THEN "author" :>
                              [i \in 1..Len(metadata["crossref"]["author"]) |->
                                 CrossrefAuthorEntry(metadata["crossref"]["author"][i])]
                       ELSE EmptyDict
        issued == IF "published_date" \in DOMAIN metadata
                  THEN "issued" :> metadata["published_date"]
                  ELSE IF HasCrossref(metadata, "published-print")
                       THEN "issued" :> metadata["crossref"]["published-print"]
                  ELSE IF HasCrossref(metadata, "published-online")
                       THEN "issued" :> metadata["crossref"]["published-online"]
                  ELSE IF HasCrossref(metadata, "created")
                       THEN "issued" :> metadata["crossref"]["created"]
                  ELSE EmptyDict
        publisher == IF "publisher" \in DOMAIN metadata
                     THEN "publisher" :> metadata["publisher"]
                     ELSE IF HasCrossref(metadata, "publisher")
                          THEN "publisher" :> metadata["crossref"]["publisher"]
                          ELSE EmptyDict
        container == IF HasCrossref(metadata, "container-title")
                     THEN "container-title" :>
                            (IF Len(metadata["crossref"]["container-title"]) > 0
                             THEN metadata["crossref"]["container-title"][1] ELSE "")
                     ELSE EmptyDict
        volume == IF HasCrossref(metadata, "volume")
                  THEN "volume" :> metadata["crossref"]["volume"] ELSE EmptyDict
        issue == IF HasCrossref(metadata, "issue")
                 THEN "issue" :> metadata["crossref"]["issue"] ELSE EmptyDict
        page == IF HasCrossref(metadata, "page")
                THEN "page" :> metadata["crossref"]["page"] ELSE EmptyDict
        url == "URL" :>
                 (IF "open_access_url" \in DOMAIN metadata
                  THEN metadata["open_access_url"]
                  ELSE DOI_RESOLVER \o metadata["identifier"])
        doi == "DOI" :> metadata["identifier"]
        issn == IF HasCrossref(metadata, "ISSN")
                THEN "ISSN" :>
                       (IF Len(metadata["crossref"]["ISSN"]) > 0
                        THEN metadata["crossref"]["ISSN"][1] ELSE "")
                ELSE EmptyDict
        abstract == IF HasCrossref(metadata, "abstract")
                    THEN "abstract" :> metadata["crossref"]["abstract"] ELSE EmptyDict
    IN  IF crossrefTitle /\ Len(metadata["crossref"]["title"]) = 0
        THEN BuildRaises("IndexError")            \* metadata['crossref']['title'][0]
        ELSE IF "identifier" \notin DOMAIN metadata
        THEN BuildRaises("KeyError")              \* metadata['identifier']
        ELSE Built(id @@ type @@ title @@ author @@ issued @@ publisher @@ container
                      @@ volume @@ issue @@ page @@ url @@ doi @@ issn @@ abstract)

HasProvider(metadata, provider, key) ==
    provider \in DOMAIN metadata /\ key \in DOMAIN metadata[provider]

convert_isbn_metadata_to_csl(metadata) ==
    LET id == "id" :> GetOr(metadata, "identifier", UNKNOWN_ID)
        type == "type" :> "book"
        title == IF "title" \in DOMAIN metadata
                 THEN "title" :> metadata["title"] ELSE EmptyDict
        author == IF "authors" \in DOMAIN metadata
                  THEN "author" :> metadata["authors"] ELSE EmptyDict
        issued == IF "published_date" \in DOMAIN metadata
                  THEN "issued" :> metadata["published_date"] ELSE EmptyDict
        publisher == IF "publisher" \in DOMAIN metadata
                     THEN "publisher" :> metadata["publisher"] ELSE EmptyDict
        pages == IF "page_count" \in DOMAIN metadata
                 THEN "number-of-pages" :> metadata["page_count"] ELSE EmptyDict
        edition ==
            IF HasProvider(metadata, "openlibrary", "edition_name")
            THEN IF EditionNameGroup(metadata["openlibrary"]["edition_name"]) # NoneStr
                 THEN "edition" :> EditionNameGroup(metadata["openlibrary"]["edition_name"])
                 ELSE EmptyDict
            ELSE IF HasProvider(metadata, "google_books", "edition")
                 THEN IF FirstDigitsGroup(metadata["google_books"]["edition"]) # NoneStr
                      THEN "edition" :> FirstDigitsGroup(metadata["google_books"]["edition"])
                      ELSE EmptyDict
                 ELSE EmptyDict
        isbn == "ISBN" :> metadata["identifier"]
        url == IF HasProvider(metadata, "openlibrary", "url")
               THEN "URL" :> metadata["openlibrary"]["url"]
               ELSE IF HasProvider(metadata, "google_books", "infoLink")
                    THEN "URL" :> metadata["google_books"]["infoLink"]
                    ELSE EmptyDict
        usePlace == HasProvider(metadata, "openlibrary", "publish_places")
                        /\ Len(metadata["openlibrary"]["publish_places"]) > 0
        place == IF usePlace
                 THEN "publisher-place" :>
                        metadata["openlibrary"]["publish_places"][1]["name"]
                 ELSE EmptyDict
    IN  IF "identifier" \notin DOMAIN metadata
        THEN BuildRaises("KeyError")              \* metadata['identifier']
        ELSE IF usePlace /\ "name" \notin DOMAIN metadata["openlibrary"]["publish_places"][1]
        THEN BuildRaises("KeyError")              \* publish_places[0]['name']
        ELSE Built(id @@ type @@ title @@ author @@ issued @@ publisher @@ pages
                      @@ edition @@ isbn @@ url @@ place)

UNKNOWN_TITLE == "Unknown Title"

\* metadata.get('identifier_type') is None when the key is absent
\* a builder that answers from what the cache holds
convert_to_csl_json_Cached(metadata) ==
    IF citation_cache # EmptyDict
    THEN Built(("id" :> GetOr(metadata, "identifier", UNKNOWN_ID))
               @@ ("type" :> "article")
               @@ ("title" :> GetOr(metadata, "title", UNKNOWN_TITLE)))
    ELSE IF GetOr(metadata, "identifier_type", "None") = "doi"
    THEN convert_doi_metadata_to_csl(metadata)
    ELSE convert_isbn_metadata_to_csl(metadata)

convert_to_csl_json(metadata) ==
    LET identifier_type == GetOr(metadata, "identifier_type", "None")
    IN  IF identifier_type = "doi" THEN convert_doi_metadata_to_csl(metadata)
        ELSE IF identifier_type = "isbn" THEN convert_isbn_metadata_to_csl(metadata)
        ELSE Built(("id" :> GetOr(metadata, "identifier", UNKNOWN_ID))
                   @@ ("type" :> "article")
                   @@ ("title" :> GetOr(metadata, "title", UNKNOWN_TITLE)))

(***************************************************************************)
(* citation_styles.py                                                      *)
(***************************************************************************)
UpperSeq ==
    <<"A", "B", "C", "D", "E", "F", "G", "H", "I", "J", "K", "L", "M",
      "N", "O", "P", "Q", "R", "S", "T", "U", "V", "W", "X", "Y", "Z">>

LowerSeq ==
    <<"a", "b", "c", "d", "e", "f", "g", "h", "i", "j", "k", "l", "m",
      "n", "o", "p", "q", "r", "s", "t", "u", "v", "w", "x", "y", "z">>

\* str.lower()
ToLower(s) ==
    [i \in 1..Len(s) |->
        IF s[i] \in UpperLetters
        THEN LowerSeq[CHOOSE k \in 1..Len(UpperSeq) : UpperSeq[k] = s[i]]
        ELSE s[i]]

STYLE_MAPPING ==
    (<<"a", "p", "a">> :> "apa") @@
    (<<"a", "p", "a", "-", "7", "t", "h">> :> "apa-6th-edition") @@
    (<<"m", "l", "a">> :> "modern-language-association") @@
    (<<"m", "l", "a", "-", "9">> :> "modern-language-association-8th-edition") @@
    (<<"c", "h", "i", "c", "a", "g", "o">> :> "chicago-author-date") @@
    (<<"c", "h", "i", "c", "a", "g", "o", "-", "n", "o", "t", "e", "s">> :> "chicago-note-bibliography") @@
    (<<"h", "a", "r", "v", "a", "r", "d">> :> "harvard-cite-them-right") @@
    (<<"i", "e", "e", "e">> :> "ieee") @@
    (<<"v", "a", "n", "c", "o", "u", "v", "e", "r">> :> "vancouver") @@
    (<<"a", "m", "a">> :> "american-medical-association") @@
    (<<"a", "c", "s">> :> "american-chemical-society") @@
    (<<"n", "a", "t", "u", "r", "e">> :> "nature") @@
    (<<"s", "c", "i", "e", "n", "c", "e">> :> "science") @@
    (<<"b", "i", "b", "t", "e", "x">> :> "bibtex") @@
    (<<"a", "c", "m">> :> "acm-sig-proceedings")

DEFAULT_STYLE_ID == "apa"

\* What the style download and the CSL engine do on one call: the style file
\* is available or not, and the engine renders or raises.
RenderEnvs == [downloaded : BOOLEAN, renders : BOOLEAN]

\* The returned text is a record: the engine's output is opaque, named by the
\* style sheet it was rendered with and the item rendered.
format_citation(csl_data, style_name, env) ==
    LET style_id == IF ToLower(style_name) \in DOMAIN STYLE_MAPPING
                    THEN STYLE_MAPPING[ToLower(style_name)]
                    ELSE DEFAULT_STYLE_ID
    IN  IF ~env.downloaded
        THEN [text |-> "Error: Style '{style_name}' not found.",
              style_id |-> style_id, item |-> NoneStr]
        ELSE IF ~env.renders
        THEN [text |-> "Error formatting citation: {e}",
              style_id |-> style_id, item |-> NoneStr]
        ELSE [text |-> "bibliography", style_id |-> style_id,
              item |-> GetOr(csl_data, "id", <<"i", "t", "e", "m", "-", "0">>)]

Family(author) == GetOr(author, "family", <<>>)

ET_AL == <<" ", "e", "t", " ", "a", "l", ".">>

\* author_text; joiner is " & " (parenthetical) or " and " (narrative)
AuthorText(csl_data, joiner) ==
    LET authors == GetOr(csl_data, "author", <<>>)
    IN  IF Len(authors) = 0 THEN <<>>
        ELSE IF Len(authors) = 1 THEN Family(authors[1])
        ELSE IF Len(authors) = 2
             THEN Family(authors[1]) \o joiner \o Family(authors[2])
        ELSE Family(authors[1]) \o ET_AL

\* year: date_parts[0][0] of csl_data['issued'], '' without it
IssuedYear(csl_data) ==
    IF "issued" \notin DOMAIN csl_data THEN <<>>
    ELSE LET date_parts == GetOr(csl_data["issued"], "date-parts", <<<<<<>>>>>>)
         IN  IF Len(date_parts) > 0 /\ Len(date_parts[1]) > 0
             THEN date_parts[1][1] ELSE <<>>

STYLES_AUTHOR_DATE ==
    {<<"a", "p", "a">>, <<"a", "p", "a", "-", "7", "t", "h">>,
     <<"h", "a", "r", "v", "a", "r", "d">>}

STYLES_MLA == {<<"m", "l", "a">>, <<"m", "l", "a", "-", "9">>}

STYLES_CHICAGO ==
    {<<"c", "h", "i", "c", "a", "g", "o">>,
     <<"c", "h", "i", "c", "a", "g", "o", "-", "n", "o", "t", "e", "s">>}

STYLE_IEEE == <<"i", "e", "e", "e">>

CslId(csl_data) == GetOr(csl_data, "id", <<"?">>)

generate_parenthetical_citation(csl_data, style_name) ==
    LET style == ToLower(style_name)
        a == AuthorText(csl_data, <<" ", "&", " ">>)
        y == IssuedYear(csl_data)
        default ==
            IF a # <<>> /\ y # <<>> THEN <<"(">> \o a \o <<",", " ">> \o y \o <<")">>
            ELSE IF a # <<>> THEN <<"(">> \o a \o <<")">>
            ELSE IF y # <<>> THEN <<"(">> \o y \o <<")">>
            ELSE <<"(">> \o CslId(csl_data) \o <<")">>
    IN  IF style \in STYLES_AUTHOR_DATE THEN default
        ELSE IF style \in STYLES_MLA
             THEN IF a # <<>> THEN <<"(">> \o a \o <<")">> ELSE default
        ELSE IF style \in STYLES_CHICAGO
             THEN IF a # <<>> /\ y # <<>>
                  THEN <<"(">> \o a \o <<" ">> \o y \o <<")">> ELSE default
        ELSE IF style = STYLE_IEEE THEN <<"[">> \o CslId(csl_data) \o <<"]">>
        ELSE default

generate_narrative_citation(csl_data, style_name) ==
    LET style == ToLower(style_name)
        a == AuthorText(csl_data, <<" ", "a", "n", "d", " ">>)
        y == IssuedYear(csl_data)
        default ==
            IF a # <<>> /\ y # <<>> THEN a \o <<" ", "(">> \o y \o <<")">>
            ELSE IF a # <<>> THEN a
            ELSE IF y # <<>> THEN <<"(">> \o y \o <<")">>
            ELSE CslId(csl_data)
    IN  IF style \in STYLES_AUTHOR_DATE THEN default
        ELSE IF style \in STYLES_MLA
             THEN IF a # <<>> THEN a ELSE default
        ELSE IF style \in STYLES_CHICAGO
             THEN IF a # <<>> /\ y # <<>>
                  THEN a \o <<" ", "(">> \o y \o <<")">> ELSE default
        ELSE IF style = STYLE_IEEE THEN <<"[">> \o CslId(csl_data) \o <<"]">>
        ELSE default

(***************************************************************************)
(* Input strings of the classifier specification                           *)
(***************************************************************************)
Leads == {<<>>, <<" ">>}

Trails == {<<>>, <<" ">>, <<"\t">>}

Schemes ==
    {<<>>,
     <<"h", "t", "t", "p", "s", ":", "/", "/", "d", "o", "i", ".", "o", "r", "g", "/">>,
     <<"h", "t", "t", "p", ":", "/", "/", "d", "x", ".", "d", "o", "i", ".", "o", "r", "g", "/">>,
     <<"h", "t", "t", "p", "s", ":", "/", "/", "e", "x", "a", "m", "p", "l", "e", ".", "o", "r", "g", "/">>}

Separators == {<<>>, <<"-">>, <<" ">>}

DoiCores ==
    {<<"1", "0", ".">> \o digs \o slash \o suffix :
        digs \in {<<"1", "2", "3">>, <<"1", "2", "3", "4">>,
                  <<"1", "2", "3", "4", "5", "6", "7", "8", "9">>,
                  <<"1", "2", "3", "4", "5", "6", "7", "8", "9", "0">>},
        slash \in {<<>>, <<"/">>},
        suffix \in {<<>>, <<"a">>, <<"A", "-", "1">>, <<"a", " ", "b">>, <<"a", "#">>}}

Isbn13Cores ==
    {<<"9", "7", "8">> \o s1 \o <<"0", "1", "4", "0", "4", "4", "9", "1", "3">> \o s2 \o last :
        s1 \in Separators, s2 \in Separators,
        last \in {<<>>, <<"6">>, <<"X">>, <<"6", "6">>}}

Isbn10Cores ==
    {<<"0">> \o s1 \o <<"3", "0", "6", "4", "0", "6", "1", "5">> \o s2 \o last :
        s1 \in Separators, s2 \in Separators,
        last \in {<<>>, <<"2">>, <<"X">>, <<"x">>, <<"a">>}}

OtherCores ==
    {<<>>,
     <<"n", "o", "t", "-", "a", "n", "-", "i", "d">>,
     <<"-", "1", "2", "3", "4", "5", "6", "7", "8", "9", "0">>,
     <<"X", "1", "2", "3", "4", "5", "6", "7", "8", "9">>}

RawIdentifiers ==
    {lead \o scheme \o core \o trail :
        lead \in Leads, scheme \in Schemes,
        core \in DoiCores \cup Isbn13Cores \cup Isbn10Cores \cup OtherCores,
        trail \in Trails}

(***************************************************************************)
(* Initial values                                                          *)
(***************************************************************************)
API_CONFIG_INITIAL ==
    [crossref |->
        ("url" :> "https://api.crossref.org/works/")
        @@ ("headers" :> ("User-Agent" :>
              "CitationGenerator/1.0 (mailto:support@citationgenerator.com)")),
     datacite |-> ("url" :> "https://api.datacite.org/dois/"),
     openlibrary |-> ("url" :> "https://openlibrary.org/api/books"),
     worldcat |-> ("url" :> "http://xisbn.worldcat.org/webservices/xid/isbn/"),
     unpaywall |->
        ("url" :> "https://api.unpaywall.org/v2/")
        @@ ("params" :> ("email" :> "support@citationgenerator.com")),
     google_books |-> ("url" :> "https://www.googleapis.com/books/v1/volumes"),
     isbndb |->
        ("url" :> "https://api.isbndb.com/book/")
        @@ ("headers" :> ("Authorization" :> ISBNDB_PLACEHOLDER))]

NoRequest == [identifier |-> NotRun, style |-> NotRun]

NoValidation ==
    [identifier |-> NotRun, valid |-> FALSE, type |-> "NotRun", error |-> "NotRun"]

NoRecord == [csl |-> EmptyDict, raised |-> "NotRun"]

IdIdle == raw = NotRun /\ cleaned = NotRun /\ kind = "NotRun" /\ validation = NoValidation

GlobalsInitial == API_CONFIG = API_CONFIG_INITIAL /\ citation_cache = EmptyDict

ReqIdle ==
    /\ pc = "idle"
    /\ request = NoRequest
    /\ gc_identifier = NotRun
    /\ gc_style = NotRun
    /\ gc_identifier_type = "NotRun"
    /\ fm_metadata = EmptyDict
    /\ calls = <<>>
    /\ data = EmptyDict
    /\ raised = "None"
    /\ gc_csl_data = EmptyDict
    /\ response = EmptyDict
    /\ status = 0

CslIdle == bag = EmptyDict /\ record = NoRecord

\* the calls of generate_citation (or of fetch_metadata) in flight
Handlers == {"h1", "h2"}

IdleHandler ==
    [pc |-> "idle", request |-> NoRequest, identifier |-> NotRun, style |-> NotRun,
     identifier_type |-> "NotRun", metadata |-> EmptyDict, calls |-> <<>>,
     raised |-> "None", response |-> EmptyDict, status |-> 0]

SvcIdle == handlers = [h \in Handlers |-> IdleHandler]

\* fetch_from_api has made no request
NetIdle == sent = <<>>

(***************************************************************************)
(* Specification SpecId: the classifier functions applied to a raw string  *)
(***************************************************************************)
InitId ==
    /\ raw \in RawIdentifiers
    /\ cleaned = NotRun
    /\ kind = "NotRun"
    /\ validation = NoValidation
    /\ GlobalsInitial
    /\ ReqIdle
    /\ CslIdle
    /\ SvcIdle
    /\ NetIdle

CleanIdentifier ==
    /\ cleaned = NotRun
    /\ cleaned' = clean_identifier(raw)
    /\ UNCHANGED <<raw, kind, validation, globalVars, reqVars, cslVars, svcVars, netVars>>

IdentifyIdentifierType ==
    /\ kind = "NotRun"
    /\ kind' = identify_identifier_type(raw)
    /\ UNCHANGED <<raw, cleaned, validation, globalVars, reqVars, cslVars, svcVars, netVars>>

ValidateIdentifier ==
    /\ validation.type = "NotRun"
    /\ validation' = validate_identifier(raw)
    /\ UNCHANGED <<raw, cleaned, kind, globalVars, reqVars, cslVars, svcVars, netVars>>

NextId == CleanIdentifier \/ IdentifyIdentifierType \/ ValidateIdentifier

SpecId == InitId /\ [][NextId]_vars

(***************************************************************************)
(* What the providers can answer (decoded JSON bodies)                     *)
(***************************************************************************)
\* every way of taking one dict of each set and merging them
Combine2(A, B) == {a @@ b : a \in A, b \in B}

Combine3(A, B, C) == {a @@ b @@ c : a \in A, b \in B, c \in C}

CrossrefMessages ==
    Combine3(
        {EmptyDict, "title" :> <<>>, "title" :> <<"T_crossref">>},
        {EmptyDict,
         ("author" :> <<[given |-> <<"J">>, family |-> <<"B", "e", "l", "l">>]>>)
            @@ ("published-print" :> DateParts(<<"2", "0", "0", "9">>))
            @@ ("publisher" :> "P_crossref"),
         "published-online" :> DateParts(<<"2", "0", "0", "8">>)},
        {EmptyDict, "type" :> "dissertation"})

CrossrefJson == {EmptyDict} \cup {"message" :> m : m \in CrossrefMessages}

DataciteAttributes ==
    Combine3(
        {EmptyDict, "titles" :> <<>>, "titles" :> <<[title |-> "T_datacite"]>>},
        {EmptyDict,
         "creators" :> <<[givenName |-> <<"D">>, familyName |-> <<"C", "i", "t", "e">>],
                         [name |-> <<"O", "r", "g">>]>>},
        {EmptyDict,
         "dates" :> <<[dateType |-> "Created", date |-> <<"1", "9", "9", "9">>],
                      [dateType |-> "Issued",
                       date |-> <<"2", "0", "1", "0", "-", "0", "5", "-", "0", "1">>]>>,
         "dates" :> <<[dateType |-> "Issued", date |-> <<"c", "2", "0", "1", "0">>]>>,
         "dates" :> <<[date |-> <<"2", "0", "1", "0">>]>>,
         "dates" :> <<[dateType |-> "Issued"]>>})

DataciteJson ==
    {EmptyDict, "data" :> EmptyDict}
        \cup {"data" :> ("attributes" :> a) : a \in DataciteAttributes}

OA_URL ==
    <<"h", "t", "t", "p", "s", ":", "/", "/", "r", "e", "p", "o", ".",
      "e", "x", "a", "m", "p", "l", "e", "/", "p", "d", "f">>

UnpaywallJson ==
    {EmptyDict,
     "is_oa" :> FALSE,
     ("is_oa" :> TRUE) @@ ("best_oa_location" :> None),
     ("is_oa" :> TRUE) @@ ("best_oa_location" :> ("url" :> OA_URL)),
     ("is_oa" :> TRUE) @@ ("best_oa_location" :> ("host_type" :> "repository"))}

OpenlibraryBooks ==
    Combine2(
        {EmptyDict, "title" :> "T_openlibrary"},
        {EmptyDict,
         ("authors" :> <<[name |-> <<"A", "l", " ", "Q", " ", "B", "o">>],
                         [name |-> <<"P", "l", "a", "t", "o">>]>>)
            @@ ("publishers" :> <<[name |-> "P_openlibrary"]>>)
            @@ ("publish_date" :> <<"M", "a", "y", " ", "2", "0", "0", "1">>)
            @@ ("number_of_pages" :> 101),
         ("publishers" :> <<>>) @@ ("publish_date" :> <<"n", ".", "d", ".">>),
         "publishers" :> <<[url |-> "u"]>>,
         "authors" :> <<[name |-> <<"A", "l", "\t", "B", "o">>]>>,
         "publish_places" :> <<[name |-> "London"]>>,
         "publish_places" :> <<[url |-> "u"]>>})

OpenlibraryJson ==
    {EmptyDict, "ISBN:0000000000" :> EmptyDict}
        \cup {BIBKEY :> b : b \in OpenlibraryBooks}

GoogleVolumes ==
    Combine2(
        {EmptyDict, "title" :> "T_google_books"},
        {EmptyDict,
         ("authors" :> <<<<"C", "y", " ", "D", "i">>>>)
            @@ ("publisher" :> "P_google_books")
            @@ ("publishedDate" :> <<"2", "0", "0", "2", "-", "0", "3">>)
            @@ ("pageCount" :> 102)})

GoogleBooksJson ==
    {EmptyDict, "items" :> <<>>, "items" :> <<[kind |-> "books#volume"]>>}
        \cup {"items" :> <<[volumeInfo |-> v]>> : v \in GoogleVolumes}

WorldcatBooks ==
    Combine2(
        {EmptyDict, "title" :> "T_worldcat"},
        {EmptyDict,
         ("author" :> <<"E", "d", " ", "F", "a", ";", " ", "G", "i", "l">>)
            @@ ("publisher" :> "P_worldcat")
            @@ ("year" :> <<"2", "0", "0", "3">>)})

WorldcatJson ==
    {EmptyDict, "list" :> <<>>} \cup {"list" :> <<b>> : b \in WorldcatBooks}

IsbndbBooks ==
    Combine2(
        {EmptyDict, "title" :> "T_isbndb"},
        {EmptyDict,
         ("authors" :> <<<<"H", "u", " ", "I", "x">>>>)
            @@ ("publisher" :> "P_isbndb")
            @@ ("date_published" :> <<"2", "0", "0", "4">>)
            @@ ("pages" :> 104)})

IsbndbJson == {EmptyDict} \cup {"book" :> b : b \in IsbndbBooks}

ProviderJson ==
    [crossref |-> CrossrefJson, datacite |-> DataciteJson, unpaywall |-> UnpaywallJson,
     openlibrary |-> OpenlibraryJson, google_books |-> GoogleBooksJson,
     worldcat |-> WorldcatJson, isbndb |-> IsbndbJson]

\* the outcomes of one call of the provider api_name
Outcomes(api_name) ==
    {Failed(k) : k \in FailureKinds} \cup {Decoded(j) : j \in ProviderJson[api_name]}

(***************************************************************************)
(* config.py: configure_api_keys                                           *)
(***************************************************************************)
\* values of the environment variable ISBNDB_API_KEY ('' when unset)
EnvKeys == {"", "secret-key"}

configure_api_keys(config, key) ==
    IF key # "" /\ "isbndb" \in DOMAIN config
    THEN [config EXCEPT !["isbndb"]["headers"]["Authorization"] = key]
    ELSE config

ConfigureApiKeys ==
    /\ pc = "idle"
    /\ \E key \in EnvKeys : API_CONFIG' = configure_api_keys(API_CONFIG, key)
    /\ UNCHANGED <<idVars, citation_cache, reqVars, cslVars, svcVars, netVars>>

(***************************************************************************)
(* main.py: generate_citation, with data_fetcher.fetch_metadata.  The      *)
(* handler is followed from one provider call to the next.                 *)
(***************************************************************************)
RequestIdentifiers ==
    {<<"1", "0", ".", "1", "2", "3", "4", "/", "a">>,
     <<"9", "7", "8", "0", "1", "4", "0", "4", "4", "9", "1", "3", "6">>,
     <<" ", "0", "-", "3", "0", "6", "4", "0", "6", "1", "5", "-", "X">>,
     <<"n", "o", "t", "-", "a", "n", "-", "i", "d">>}

RequestStyles == {<<"A", "P", "A">>, <<"n", "o", "s", "u", "c", "h">>}

\* a key that puts the style first
CacheKey_StyleFirst(id, st) == st \o <<":">> \o id

\* cache_key = f"{identifier}:{style}"
CacheKey(id, st) == id \o <<":">> \o st

\* fetch_metadata up to its first provider call: the bag and where it goes on
fetch_metadata(id) ==
    LET cleanId == clean_identifier(id)
        type == identify_identifier_type(cleanId)
    IN  IF type = "doi"
        THEN [metadata |-> NewBag(cleanId, "doi"), next |-> "crossref"]
        ELSE IF type = "isbn"
        THEN [metadata |-> NewBag(cleanId, "isbn"), next |-> "openlibrary"]
        ELSE [metadata |-> ("identifier" :> cleanId) @@ ("identifier_type" :> "unknown")
                              @@ ("error" :> "Unrecognized identifier format"),
              next |-> "fetched"]

GenerateCitationStart ==
    /\ pc = "idle"
    /\ status = 0
    /\ \E id \in RequestIdentifiers, st \in RequestStyles :
         LET cleanId == clean_identifier(id)
             lower == ToLower(st)
             type == identify_identifier_type(cleanId)
         IN  /\ request' = [identifier |-> id, style |-> st]
             /\ gc_identifier' = cleanId
             /\ gc_style' = lower
             /\ IF CacheKey(cleanId, lower) \in DOMAIN citation_cache
                THEN /\ response' = citation_cache[CacheKey(cleanId, lower)]
                     /\ status' = 200
                     /\ pc' = "done"
                     /\ UNCHANGED <<gc_identifier_type, fm_metadata>>
                ELSE IF type = "None"
                THEN /\ gc_identifier_type' = type
                     /\ status' = 400
                     /\ pc' = "done"
                     /\ UNCHANGED <<response, fm_metadata>>
                ELSE /\ gc_identifier_type' = type
                     /\ fm_metadata' = fetch_metadata(cleanId).metadata
                     /\ pc' = fetch_metadata(cleanId).next
                     /\ UNCHANGED <<response, status>>
    /\ UNCHANGED <<idVars, globalVars, calls, data, raised, gc_csl_data, cslVars, svcVars, netVars>>

\* the end of one provider call: the call and its answer are recorded; an
\* exception in the section leaves fetch_metadata without a bag (pc "raised"),
\* otherwise the section's bag is kept
FetchStep(api_name, json, exception, metadata, next) ==
    /\ calls' = Append(calls, api_name)
    /\ data' = Put(data, api_name, json)
    /\ IF exception # "None"
       THEN /\ raised' = exception
            /\ pc' = "raised"
            /\ UNCHANGED fm_metadata
       ELSE /\ fm_metadata' = metadata
            /\ pc' = next
            /\ UNCHANGED raised
    /\ UNCHANGED <<idVars, globalVars, request, gc_identifier, gc_style,
                   gc_identifier_type, gc_csl_data, response, status, cslVars, svcVars, netVars>>

FetchCrossref ==
    /\ pc = "crossref"
    /\ \E outcome \in Outcomes("crossref") :
            LET json == fetch_from_api("crossref", fm_metadata["identifier"], outcome)
                r == CrossrefSection(fm_metadata, json)
            IN  FetchStep("crossref", json, r.raised, r.metadata, "datacite")

FetchDatacite ==
    /\ pc = "datacite"
    /\ \E outcome \in Outcomes("datacite") :
            LET json == fetch_from_api("datacite", fm_metadata["identifier"], outcome)
                r == DataciteSection(fm_metadata, json)
            IN  FetchStep("datacite", json, r.raised, r.metadata, "unpaywall")

FetchUnpaywall ==
    /\ pc = "unpaywall"
    /\ \E outcome \in Outcomes("unpaywall") :
            LET json == fetch_from_api("unpaywall", fm_metadata["identifier"], outcome)
                r == UnpaywallSection(fm_metadata, json)
            IN  FetchStep("unpaywall", json, r.raised, r.metadata, "fetched")

FetchOpenlibrary ==
    /\ pc = "openlibrary"
    /\ \E outcome \in Outcomes("openlibrary") :
            LET json == fetch_from_api("openlibrary", fm_metadata["identifier"], outcome)
                r == OpenlibrarySection(fm_metadata, json)
            IN  FetchStep("openlibrary", json, r.raised, r.metadata, "google_books")

FetchGoogleBooks ==
    /\ pc = "google_books"
    /\ \E outcome \in Outcomes("google_books") :
            LET json == fetch_from_api("google_books", fm_metadata["identifier"], outcome)
                r == GoogleBooksSection(fm_metadata, json)
            IN  FetchStep("google_books", json, r.raised, r.metadata, "worldcat")

FetchWorldcat ==
    /\ pc = "worldcat"
    /\ \E outcome \in Outcomes("worldcat") :
            LET json == fetch_from_api("worldcat", fm_metadata["identifier"], outcome)
                r == WorldcatSection(fm_metadata, json)
            IN  FetchStep("worldcat", json, r.raised, r.metadata, "isbndb")

\* the optional ISBNdb section and the end of fetch_isbn_metadata
FetchIsbndb ==
    /\ pc = "isbndb"
    /\ IF IsbndbConfigured(API_CONFIG)
       THEN \E outcome \in Outcomes("isbndb") :
                 LET json == fetch_from_api("isbndb", fm_metadata["identifier"], outcome)
                     r == IsbndbSection(fm_metadata, json)
                 IN  FetchStep("isbndb", json, r.raised, IsbnDefaultType(r.metadata), "fetched")
       ELSE /\ fm_metadata' = IsbnDefaultType(fm_metadata)
            /\ pc' = "fetched"
            /\ UNCHANGED <<idVars, globalVars, request, gc_identifier, gc_style,
                           gc_identifier_type, calls, data, raised, gc_csl_data,
                           response, status, cslVars, svcVars, netVars>>

\* a not-found test that looks only at whether the bag is empty
NotFound_EmptyOnly(type, md) == DOMAIN md = {}

\* the not-found test of generate_citation
NotFound(type, md) ==
    \/ DOMAIN md = {}
    \/ type = "doi" /\ "crossref" \notin DOMAIN md /\ "datacite" \notin DOMAIN md
    \/ /\ type = "isbn"
       /\ "openlibrary" \notin DOMAIN md
       /\ "google_books" \notin DOMAIN md
       /\ "worldcat" \notin DOMAIN md

BuildResponse(id, type, st, csl, env) ==
    [identifier |-> id,
     identifier_type |-> type,
     style |-> st,
     full_citation |-> format_citation(csl, st, env),
     parenthetical |-> generate_parenthetical_citation(csl, st),
     narrative |-> generate_narrative_citation(csl, st),
     timestamp |-> "datetime.now()"]

\* generate_citation after fetch_metadata returned or raised; an exception
\* that leaves the handler is answered with status 500
GenerateCitationFinish ==
    /\ pc \in {"fetched", "raised"}
    /\ pc' = "done"
    /\ IF pc = "raised"
       THEN /\ status' = 500
            /\ UNCHANGED <<raised, gc_csl_data, response, citation_cache>>
       ELSE IF NotFound(gc_identifier_type, fm_metadata)
       THEN /\ status' = 404
            /\ UNCHANGED <<raised, gc_csl_data, response, citation_cache>>
       ELSE LET built == convert_to_csl_json(fm_metadata)
            IN  IF built.raised # "None"
                THEN /\ raised' = built.raised
                     /\ status' = 500
                     /\ UNCHANGED <<gc_csl_data, response, citation_cache>>
                ELSE \E env \in RenderEnvs :
                       LET r == BuildResponse(gc_identifier, gc_identifier_type,
                                              gc_style, built.csl, env)
                       IN  /\ gc_csl_data' = built.csl
                           /\ response' = r
                           /\ citation_cache' =
                                  Put(citation_cache, CacheKey(gc_identifier, gc_style), r)
                           /\ status' = 200
                           /\ UNCHANGED raised
    /\ UNCHANGED <<idVars, API_CONFIG, request, gc_identifier, gc_style,
                   gc_identifier_type, fm_metadata, calls, data, cslVars, svcVars, netVars>>

Init == IdIdle /\ GlobalsInitial /\ ReqIdle /\ CslIdle /\ SvcIdle /\ NetIdle

Next ==
    \/ ConfigureApiKeys
    \/ GenerateCitationStart
    \/ FetchCrossref
    \/ FetchDatacite
    \/ FetchUnpaywall
    \/ FetchOpenlibrary
    \/ FetchGoogleBooks
    \/ FetchWorldcat
    \/ FetchIsbndb
    \/ GenerateCitationFinish

Spec == Init /\ [][Next]_vars

(***************************************************************************)
(* Specification SpecCsl: convert_to_csl_json applied to one bag           *)
(***************************************************************************)
RawTypes == DOMAIN type_mapping \cup {"foobar", "component"}

CslBags ==
    {idPart @@ typePart @@ crossrefPart @@ morePart :
        idPart \in {EmptyDict,
                    "identifier" :> <<"1", "0", ".", "1", "2", "3", "4", "/", "a">>},
        typePart \in {EmptyDict} \cup
                     {"identifier_type" :> t : t \in {"doi", "isbn", "unknown"}},
        crossrefPart \in {EmptyDict, "crossref" :> EmptyDict}
                            \cup {"crossref" :> ("type" :> t) : t \in RawTypes},
        morePart \in {EmptyDict,
                      ("title" :> "T") @@ ("open_access_url" :> OA_URL)}}

\* edition strings as the providers give them
EditionStrings ==
    {<<"2", "n", "d", " ", "e", "d", "i", "t", "i", "o", "n">>,
     <<"3">>,
     <<"3", "r", "d", " ", "e", "d", ".">>,
     <<"T", "h", "i", "r", "d">>}

\* ISBN bags in which Open Library, Google Books, both or neither name an edition
EditionBags ==
    {NewBag(<<"9", "7", "8", "0", "1", "4", "0", "4", "4", "9", "1", "3", "6">>, "isbn")
        @@ openlibraryPart @@ googlePart :
        openlibraryPart \in {EmptyDict, "openlibrary" :> EmptyDict}
            \cup {"openlibrary" :> ("edition_name" :> e) : e \in EditionStrings},
        googlePart \in {EmptyDict, "google_books" :> EmptyDict}
            \cup {"google_books" :> ("edition" :> e) : e \in EditionStrings}}

InitCsl ==
    /\ IdIdle
    /\ GlobalsInitial
    /\ ReqIdle
    /\ SvcIdle
    /\ NetIdle
    /\ bag \in CslBags \cup EditionBags
    /\ record = NoRecord

ConvertToCslJson ==
    /\ record = NoRecord
    /\ record' = convert_to_csl_json(bag)
    /\ UNCHANGED <<idVars, globalVars, reqVars, bag, svcVars, netVars>>

NextCsl == ConvertToCslJson

SpecCsl == InitCsl /\ [][NextCsl]_vars

(***************************************************************************)
(* Specification SpecService: several calls of generate_citation share     *)
(* citation_cache.  Each call has its own locals (handlers[h]) and is      *)
(* followed from one provider call to the next; the steps of different     *)
(* calls interleave freely, which includes every order in which the server *)
(* can run them.  A slot can instead hold a direct call of fetch_metadata. *)
(***************************************************************************)
SvcIdentifiers ==
    {<<"1", "0", ".", "1", "2", "3", "4", "/", ":", "x">>,
     <<"1", "0", ".", "1", "2", "3", "4", "/">>,
     <<"9", "7", "8", "0", "1", "4", "0", "4", "4", "9", "1", "3", "6">>}

SvcStyles == {<<"A", "P", "A">>, <<"x", ":", "a", "p", "a">>}

\* what fetch_from_api returns for each provider in this specification
SvcJson ==
    [crossref |-> {None, "message" :> ("title" :> <<"T_crossref">>)},
     datacite |-> {None},
     unpaywall |-> {None, "is_oa" :> FALSE},
     openlibrary |-> {None, BIBKEY :> ("title" :> "T_openlibrary")},
     google_books |-> {None},
     worldcat |-> {None},
     isbndb |-> {None}]

\* generate_citation up to the call of fetch_metadata
SvcStart(h) ==
    /\ handlers[h].pc = "idle"
    /\ \E id \in SvcIdentifiers, st \in SvcStyles :
         LET cleanId == clean_identifier(id)
             lower == ToLower(st)
             type == identify_identifier_type(cleanId)
             started == [handlers[h] EXCEPT !.request = [identifier |-> id, style |-> st],
                                            !.identifier = cleanId,
                                            !.style = lower]
         IN  IF CacheKey(cleanId, lower) \in DOMAIN citation_cache
             THEN handlers' = [handlers EXCEPT ![h] =
                     [started EXCEPT !.response = citation_cache[CacheKey(cleanId, lower)],
                                     !.status = 200,
                                     !.pc = "done"]]
             ELSE IF type = "None"
             THEN handlers' = [handlers EXCEPT ![h] =
                     [started EXCEPT !.identifier_type = type,
                                     !.status = 400,
                                     !.pc = "done"]]
             ELSE handlers' = [handlers EXCEPT ![h] =
                     [started EXCEPT !.identifier_type = type,
                                     !.metadata = fetch_metadata(cleanId).metadata,
                                     !.pc = fetch_metadata(cleanId).next]]
    /\ UNCHANGED <<idVars, globalVars, reqVars, cslVars, netVars>>

\* a direct call of fetch_metadata(id), up to its first provider call
SvcFetchMetadata(h) ==
    /\ handlers[h].pc = "idle"
    /\ \E id \in SvcIdentifiers :
         handlers' = [handlers EXCEPT ![h] =
             [@ EXCEPT !.identifier = id,
                       !.metadata = fetch_metadata(id).metadata,
                       !.pc = fetch_metadata(id).next]]
    /\ UNCHANGED <<idVars, globalVars, reqVars, cslVars, netVars>>

\* the end of one provider call of the call h
SvcStep(h, api_name, exception, metadata, next) ==
    /\ handlers' = [handlers EXCEPT ![h] =
          IF exception # "None"
          THEN [@ EXCEPT !.calls = Append(@, api_name),
                         !.raised = exception,
                         !.pc = "raised"]
          ELSE [@ EXCEPT !.calls = Append(@, api_name),
                         !.metadata = metadata,
                         !.pc = next]]
    /\ UNCHANGED <<idVars, globalVars, reqVars, cslVars, netVars>>

SvcFetchCrossref(h) ==
    /\ handlers[h].pc = "crossref"
    /\ \E json \in SvcJson["crossref"] :
         LET r == CrossrefSection(handlers[h].metadata, json)
         IN  SvcStep(h, "crossref", r.raised, r.metadata, "datacite")

SvcFetchDatacite(h) ==
    /\ handlers[h].pc = "datacite"
    /\ \E json \in SvcJson["datacite"] :
         LET r == DataciteSection(handlers[h].metadata, json)
         IN  SvcStep(h, "datacite", r.raised, r.metadata, "unpaywall")

SvcFetchUnpaywall(h) ==
    /\ handlers[h].pc = "unpaywall"
    /\ \E json \in SvcJson["unpaywall"] :
         LET r == UnpaywallSection(handlers[h].metadata, json)
         IN  SvcStep(h, "unpaywall", r.raised, r.metadata, "fetched")

SvcFetchOpenlibrary(h) ==
    /\ handlers[h].pc = "openlibrary"
    /\ \E json \in SvcJson["openlibrary"] :
         LET r == OpenlibrarySection(handlers[h].metadata, json)
         IN  SvcStep(h, "openlibrary", r.raised, r.metadata, "google_books")

SvcFetchGoogleBooks(h) ==
    /\ handlers[h].pc = "google_books"
    /\ \E json \in SvcJson["google_books"] :
         LET r == GoogleBooksSection(handlers[h].metadata, json)
         IN  SvcStep(h, "google_books", r.raised, r.metadata, "worldcat")

SvcFetchWorldcat(h) ==
    /\ handlers[h].pc = "worldcat"
    /\ \E json \in SvcJson["worldcat"] :
         LET r == WorldcatSection(handlers[h].metadata, json)
         IN  SvcStep(h, "worldcat", r.raised, r.metadata, "isbndb")

SvcFetchIsbndb(h) ==
    /\ handlers[h].pc = "isbndb"
    /\ IF IsbndbConfigured(API_CONFIG)
       THEN \E json \in SvcJson["isbndb"] :
              LET r == IsbndbSection(handlers[h].metadata, json)
              IN  SvcStep(h, "isbndb", r.raised, IsbnDefaultType(r.metadata), "fetched")
       ELSE /\ handlers' = [handlers EXCEPT ![h] =
                  [@ EXCEPT !.metadata = IsbnDefaultType(@), !.pc = "fetched"]]
            /\ UNCHANGED <<idVars, globalVars, reqVars, cslVars, netVars>>

\* generate_citation after fetch_metadata returned or raised
SvcFinish(h) ==
    /\ handlers[h].pc \in {"fetched", "raised"}
    /\ handlers[h].request # NoRequest
    /\ IF handlers[h].pc = "raised"
       THEN /\ handlers' = [handlers EXCEPT ![h] = [@ EXCEPT !.status = 500, !.pc = "done"]]
            /\ UNCHANGED citation_cache
       ELSE IF NotFound(handlers[h].identifier_type, handlers[h].metadata)
       THEN /\ handlers' = [handlers EXCEPT ![h] = [@ EXCEPT !.status = 404, !.pc = "done"]]
            /\ UNCHANGED citation_cache
       ELSE LET built == convert_to_csl_json(handlers[h].metadata)
            IN  IF built.raised # "None"
                THEN /\ handlers' = [handlers EXCEPT ![h] =
                           [@ EXCEPT !.raised = built.raised, !.status = 500, !.pc = "done"]]
                     /\ UNCHANGED citation_cache
                ELSE \E env \in RenderEnvs :
                       LET r == BuildResponse(handlers[h].identifier,
                                              handlers[h].identifier_type,
                                              handlers[h].style, built.csl, env)
                       IN  /\ handlers' = [handlers EXCEPT ![h] =
                                 [@ EXCEPT !.response = r, !.status = 200, !.pc = "done"]]
                           /\ citation_cache' =
                                 Put(citation_cache,
                                     CacheKey(handlers[h].identifier, handlers[h].style), r)
    /\ UNCHANGED <<idVars, API_CONFIG, reqVars, cslVars, netVars>>

NextService ==
    \E h \in Handlers :
        \/ SvcStart(h)
        \/ SvcFetchMetadata(h)
        \/ SvcFetchCrossref(h)
        \/ SvcFetchDatacite(h)
        \/ SvcFetchUnpaywall(h)
        \/ SvcFetchOpenlibrary(h)
        \/ SvcFetchGoogleBooks(h)
        \/ SvcFetchWorldcat(h)
        \/ SvcFetchIsbndb(h)
        \/ SvcFinish(h)

SpecService == Init /\ [][NextService]_vars

(***************************************************************************)
(* Specification SpecTimeout: SpecService with a provider that never       *)
(* answers.  fetch_from_api calls requests.get without a timeout, so the   *)
(* call, and the aggregation that made it, wait for as long as the         *)
(* provider is silent.                                                     *)
(***************************************************************************)
WAITING == "requests.get"

RequestNeverReturns(h) ==
    /\ handlers[h].pc \in {"crossref", "datacite", "unpaywall",
                           "openlibrary", "google_books", "worldcat", "isbndb"}
    /\ handlers[h].pc = "isbndb" => IsbndbConfigured(API_CONFIG)
    /\ handlers' = [handlers EXCEPT ![h] =
          [@ EXCEPT !.calls = Append(@, handlers[h].pc), !.pc = WAITING]]
    /\ UNCHANGED <<idVars, globalVars, reqVars, cslVars, netVars>>

NextTimeout == NextService \/ \E h \in Handlers : RequestNeverReturns(h)

\* what a call that has started does next when the provider answers
HandlerStep(h) ==
    \/ SvcFetchCrossref(h)
    \/ SvcFetchDatacite(h)
    \/ SvcFetchUnpaywall(h)
    \/ SvcFetchOpenlibrary(h)
    \/ SvcFetchGoogleBooks(h)
    \/ SvcFetchWorldcat(h)
    \/ SvcFetchIsbndb(h)
    \/ SvcFinish(h)

\* the server goes on with every call it has started; whether a request
\* arrives is up to the clients
SpecTimeout ==
    Init /\ [][NextTimeout]_vars /\ \A h \in Handlers : WF_vars(HandlerStep(h))

(***************************************************************************)
(* Specification SpecFetch: fetch_from_api called any number of times,     *)
(* for any api_name and with or without additional_params.  params is      *)
(* config.get('params', {}): the dict of API_CONFIG itself when the        *)
(* provider's entry has the key 'params', a new dict otherwise; every      *)
(* assignment to params made before the request then lands in it.          *)
(***************************************************************************)
ApiNames ==
    {"crossref", "datacite", "unpaywall", "openlibrary", "google_books", "worldcat",
     "isbndb", "nosuch"}

FetchIdentifiers ==
    {<<"1", "0", ".", "1", "2", "3", "4", "/", "a">>,
     <<"9", "7", "8", "0", "1", "4", "0", "4", "4", "9", "1", "3", "6">>}

\* the additional_params argument: absent (None), or a dict
AdditionalParams == {None, "mailto" :> "m"}

MaxFetches == 2

\* params = config.get('params', {}) shares the dict held by API_CONFIG
ParamsShared(config, api_name) == "params" \in DOMAIN config[api_name]

\* params as it is passed to requests.get
RequestParams(config, api_name, identifier, additional_params) ==
    LET params == GetOr(config[api_name], "params", EmptyDict)
        updated == IF Truthy(additional_params) THEN additional_params @@ params
                   ELSE params
    IN  IF api_name = "openlibrary"
        THEN ("bibkeys" :> (<<"I", "S", "B", "N", ":">> \o identifier))
                @@ ("format" :> "json") @@ ("jscmd" :> "data") @@ updated
        ELSE IF api_name = "worldcat"
        THEN ("method" :> "getMetadata") @@ ("format" :> "json") @@ ("fl" :> "*")
                @@ updated
        ELSE IF api_name = "google_books"
        THEN ("q" :> ((IF is_valid_isbn(identifier)
                       THEN <<"i", "s", "b", "n", ":">> ELSE <<"d", "o", "i", ":">>)
                      \o identifier))
                @@ updated
        ELSE updated

\* API_CONFIG once fetch_from_api(api_name, identifier, additional_params) is over
ConfigAfterFetch(config, api_name, identifier, additional_params) ==
    IF api_name \notin DOMAIN config THEN config
    ELSE IF ParamsShared(config, api_name)
    THEN [config EXCEPT ![api_name]["params"] =
             RequestParams(config, api_name, identifier, additional_params)]
    ELSE config

FetchFromApi ==
    /\ Len(sent) < MaxFetches
    /\ \E api_name \in ApiNames, identifier \in FetchIdentifiers,
          additional_params \in AdditionalParams :
         /\ API_CONFIG' = ConfigAfterFetch(API_CONFIG, api_name, identifier,
                                           additional_params)
         /\ sent' = IF api_name \notin DOMAIN API_CONFIG THEN sent
                    ELSE Append(sent,
                                [api_name |-> api_name,
                                 identifier |-> identifier,
                                 additional_params |-> additional_params,
                                 headers |-> GetOr(API_CONFIG[api_name], "headers", EmptyDict),
                                 params |-> RequestParams(API_CONFIG, api_name, identifier,
                                                          additional_params)])
    /\ UNCHANGED <<idVars, citation_cache, reqVars, cslVars, svcVars>>

NextFetch == ConfigureApiKeys \/ FetchFromApi

SpecFetch == Init /\ [][NextFetch]_vars

(***************************************************************************)
(* What a provider's answer offers, read off the guards of the sections    *)
(***************************************************************************)
\* the guard under which a section merges the provider's payload
Usable(api_name, json) ==
    CASE api_name = "crossref" ->
            Truthy(json) /\ "message" \in DOMAIN json
      [] api_name = "datacite" ->
            /\ Truthy(json)
            /\ "data" \in DOMAIN json
            /\ "attributes" \in DOMAIN json["data"]
      [] api_name = "unpaywall" -> Truthy(json)
      [] api_name = "openlibrary" ->
            Truthy(json) /\ BIBKEY \in DOMAIN json
      [] api_name = "google_books" ->
            /\ Truthy(json)
            /\ "items" \in DOMAIN json
            /\ Len(json["items"]) > 0
      [] api_name = "worldcat" ->
            /\ Truthy(json)
            /\ "list" \in DOMAIN json
            /\ Len(json["list"]) > 0
      [] api_name = "isbndb" ->
            Truthy(json) /\ "book" \in DOMAIN json

\* the set of titles a usable payload supplies (empty or one title)
ProviderTitles(api_name, json) ==
    IF ~Usable(api_name, json) THEN {}
    ELSE
    CASE api_name = "crossref" ->
            IF "title" \in DOMAIN json["message"]
            THEN {json["message"]["title"][i] : i \in 1..Len(json["message"]["title"]) \cap {1}}
            ELSE {}
      [] api_name = "datacite" ->
            LET attributes == json["data"]["attributes"]
            IN  IF "titles" \in DOMAIN attributes
                THEN {attributes["titles"][i]["title"] :
                        i \in {j \in 1..Len(attributes["titles"]) \cap {1} :
                                 "title" \in DOMAIN attributes["titles"][j]}}
                ELSE {}
      [] api_name = "unpaywall" -> {}
      [] api_name = "openlibrary" ->
            IF "title" \in DOMAIN json[BIBKEY] THEN {json[BIBKEY]["title"]} ELSE {}
      [] api_name = "google_books" ->
            IF /\ "volumeInfo" \in DOMAIN json["items"][1]
               /\ "title" \in DOMAIN json["items"][1]["volumeInfo"]
            THEN {json["items"][1]["volumeInfo"]["title"]} ELSE {}
      [] api_name = "worldcat" ->
            IF "title" \in DOMAIN json["list"][1]
            THEN {json["list"][1]["title"]} ELSE {}
      [] api_name = "isbndb" ->
            IF "title" \in DOMAIN json["book"] THEN {json["book"]["title"]} ELSE {}

\* the order in which the aggregation of a kind calls its providers
DoiOrder == <<"crossref", "datacite", "unpaywall">>

IsbnOrder(config) ==
    <<"openlibrary", "google_books", "worldcat">>
        \o (IF IsbndbConfigured(config) THEN <<"isbndb">> ELSE <<>>)

ProviderOrder(identifier_type, config) ==
    IF identifier_type = "doi" THEN DoiOrder
    ELSE IF identifier_type = "isbn" THEN IsbnOrder(config)
    ELSE <<>>

LogicalFields == {"title", "authors", "publisher", "published_date", "page_count"}

\* fetch_metadata is running, has returned its bag, or has raised
Aggregating ==
    pc \in {"crossref", "datacite", "unpaywall",
            "openlibrary", "google_books", "worldcat", "isbndb"}

AggregationOver == pc \in {"fetched", "raised"}

(***************************************************************************)
(* Claims about the aggregation and the request handler (Spec)             *)
(***************************************************************************)
\* C1: in every aggregation, once a provider has set a logical field (title,
\* authors, publisher, published_date, page_count) in the bag, no provider
\* called later changes the field's value.
C1_FirstWriterWins ==
    [][Aggregating =>
         \A f \in LogicalFields :
            f \in DOMAIN fm_metadata =>
               /\ f \in DOMAIN fm_metadata'
               /\ fm_metadata'[f] = fm_metadata[f]]_vars

\* C2: when every provider before P2 in the order returned no usable payload
\* and P2 (not the first provider) returned a usable payload with a title,
\* the aggregation returns a bag whose title is P2's title.
C2_PartialFailureTolerance ==
    AggregationOver =>
       LET order == ProviderOrder(gc_identifier_type, API_CONFIG)
       IN  \A j \in 2..Len(order) :
              (/\ \A i \in 1..j : order[i] \in DOMAIN data
               /\ \A i \in 1..(j - 1) : ~Usable(order[i], data[order[i]])
               /\ ProviderTitles(order[j], data[order[j]]) # {})
              => /\ pc = "fetched"
                 /\ "title" \in DOMAIN fm_metadata
                 /\ fm_metadata["title"] \in ProviderTitles(order[j], data[order[j]])

\* C3: an aggregation that is over has called exactly the providers of the
\* identifier's kind, each once, in the fixed order; isbndb is among them
\* exactly when the Authorization header differs from the placeholder.
C3_InvocationOrder ==
    AggregationOver => calls = ProviderOrder(gc_identifier_type, API_CONFIG)

\* C4: no provider behaviour makes the aggregation raise; a bag is returned,
\* and its sources are empty when no provider returned a usable payload.
C4_AggregationNeverRaises ==
    /\ pc # "raised"
    /\ (pc = "fetched" /\ (\A p \in DOMAIN data : ~Usable(p, data[p])))
          => fm_metadata["sources"] = <<>>

\* C5: a request for a valid identifier is answered 404 exactly when none of
\* the providers invoked for it returned a usable payload.
C5_NotFoundIffNoProvider ==
    (pc = "done" /\ gc_identifier_type \in {"doi", "isbn"})
       => (status = 404 <=> \A p \in DOMAIN data : ~Usable(p, data[p]))

\* unpaywall reported an open-access location
OaReported ==
    /\ "unpaywall" \in DOMAIN data
    /\ Usable("unpaywall", data["unpaywall"])
    /\ "is_oa" \in DOMAIN data["unpaywall"]
    /\ data["unpaywall"]["is_oa"]
    /\ "best_oa_location" \in DOMAIN data["unpaywall"]
    /\ Truthy(data["unpaywall"]["best_oa_location"])

\* C6: the URL of a DOI record is a non-empty string: the open-access URL
\* when unpaywall reported an open-access location, the resolver URL
\* https://doi.org/<doi> otherwise.
C6_DoiRecordUrl ==
    (pc = "done" /\ status = 200 /\ gc_identifier_type = "doi")
       => LET url == gc_csl_data["URL"]
          IN  /\ url # NoneStr
              /\ Len(url) > 0
              /\ IF OaReported
                 THEN /\ "url" \in DOMAIN data["unpaywall"]["best_oa_location"]
                      /\ url = data["unpaywall"]["best_oa_location"]["url"]
                 ELSE url = DOI_RESOLVER \o gc_identifier

(***************************************************************************)
(* Claims about the record builder (SpecCsl)                               *)
(***************************************************************************)
\* the closed vocabulary of record types
CSL_TYPES ==
    {"article-journal", "book", "chapter", "paper-conference",
     "report", "thesis", "dataset", "post"}

\* C7: every record convert_to_csl_json returns, whatever the bag's
\* identifier_type (doi, isbn, unknown or absent), has a type of the closed
\* vocabulary and a non-empty id, the bag's identifier when it has one.
C7_RecordTypeAndId ==
    record.raised = "None" =>
       /\ record.csl["type"] \in CSL_TYPES
       /\ Len(record.csl["id"]) > 0
       /\ "identifier" \in DOMAIN bag => record.csl["id"] = bag["identifier"]

BOOK_LIKE ==
    {"book", "monograph", "edited-book", "reference-book", "book-series", "book-set"}

REPORT_LIKE ==
    {"report", "report-series", "standard", "report-component", "standard-series"}

\* the type the mapping is said to give a raw registry type; for the other
\* entries of the table, a type of the closed vocabulary
MappedTypes(raw_type) ==
    IF raw_type = "journal-article" THEN {"article-journal"}
    ELSE IF raw_type = "book-chapter" THEN {"chapter"}
    ELSE IF raw_type = "proceedings-article" THEN {"paper-conference"}
    ELSE IF raw_type = "dissertation" THEN {"thesis"}
    ELSE IF raw_type = "dataset" THEN {"dataset"}
    ELSE IF raw_type = "posted-content" THEN {"post"}
    ELSE IF raw_type \in BOOK_LIKE THEN {"book"}
    ELSE IF raw_type \in REPORT_LIKE THEN {"report"}
    ELSE IF raw_type \notin DOMAIN type_mapping THEN {"article-journal"}
    ELSE CSL_TYPES

DoiRecordBuilt ==
    /\ record.raised = "None"
    /\ "identifier_type" \in DOMAIN bag
    /\ bag["identifier_type"] = "doi"

\* C8: the type of a DOI record is the mapping applied to the raw type the
\* registry (crossref) supplied: the named raw types map as listed, the
\* book-like ones (book, monograph, edited-book, reference-book, book-series,
\* book-set) to book, the report-like ones (report, report-series, standard,
\* report-component, standard-series) to report, a raw type outside the table
\* to article-journal; without a raw type the type is article-journal.
C8_DoiTypeMapping ==
    DoiRecordBuilt =>
       IF HasCrossref(bag, "type")
       THEN record.csl["type"] \in MappedTypes(bag["crossref"]["type"])
       ELSE record.csl["type"] = "article-journal"

\* a DOI record was built from a raw type outside the table
C8_Witness ==
    /\ DoiRecordBuilt
    /\ HasCrossref(bag, "type")
    /\ bag["crossref"]["type"] = "foobar"
    /\ record.csl["type"] = "article-journal"

(***************************************************************************)
(* Claims about the classifier (SpecId)                                    *)
(***************************************************************************)
\* 10.<4-9 digits>/<one or more allowed characters>, case-insensitive
DoiShape(s) ==
    \E k \in DOI_MIN_DIGITS..DOI_MAX_DIGITS :
       /\ Len(s) >= k + 5
       /\ SubSeq(s, 1, 3) = <<"1", "0", ".">>
       /\ \A i \in 4..(k + 3) : s[i] \in Digits
       /\ s[k + 4] = "/"
       /\ \A i \in (k + 5)..Len(s) : s[i] \in DOI_SUFFIX_CHARS

\* exactly 10 characters, 9 digits and then a digit or X/x, or exactly 13 digits
IsbnShape(s) ==
    \/ /\ Len(s) = ISBN10_LEN
       /\ \A i \in 1..(ISBN10_LEN - 1) : s[i] \in Digits
       /\ s[ISBN10_LEN] \in Digits \cup {"X", "x"}
    \/ /\ Len(s) = ISBN13_LEN
       /\ \A i \in 1..ISBN13_LEN : s[i] \in Digits

ShapeOf(doiText, isbnText) ==
    IF DoiShape(doiText) THEN "doi"
    ELSE IF IsbnShape(isbnText) THEN "isbn"
    ELSE "None"

C10_NormalizedIdentifier ==
    (cleaned # NotRun /\ kind \in {"doi", "isbn"}) =>
       /\ cleaned = Strip(cleaned)
       /\ kind = "doi" =>
             ~(StartsWith(cleaned, HTTP_PREFIX) \/ StartsWith(cleaned, HTTPS_PREFIX))
       /\ kind = "isbn" =>
             \A i \in 1..Len(cleaned) : cleaned[i] \notin {"-"} \cup Whitespace

\* the raw string classifies as neither DOI nor ISBN
Malformed(id) ==
    ShapeOf(clean_identifier(id), RemoveHyphensAndSpaces(clean_identifier(id))) = "None"

\* C11: a generate_citation request whose identifier is malformed is answered
\* 400 and a direct fetch_metadata call on a malformed identifier returns the
\* error record with identifier_type unknown; in both no provider call is
\* made for it.
C11_MalformedRejected ==
    \A h \in Handlers :
       /\ (handlers[h].request # NoRequest
             /\ Malformed(handlers[h].request["identifier"])) =>
               /\ handlers[h].calls = <<>>
               /\ handlers[h].pc = "done" => handlers[h].status = 400
       /\ (handlers[h].request = NoRequest /\ handlers[h].pc # "idle"
             /\ Malformed(handlers[h].identifier)) =>
               /\ handlers[h].calls = <<>>
               /\ handlers[h].pc = "fetched"
               /\ handlers[h].metadata["identifier_type"] = "unknown"
               /\ "error" \in DOMAIN handlers[h].metadata

\* C12: format_citation never substitutes a default style: a request whose
\* style name has no entry in STYLE_MAPPING is never answered with a rendered
\* citation, and a rendered citation is always rendered with the style sheet
\* that STYLE_MAPPING gives for the requested style name.
C12_UnknownStyleRefused ==
    (pc = "done" /\ status = 200
        /\ response["full_citation"].text = "bibliography") =>
       /\ response["style"] \in DOMAIN STYLE_MAPPING
       /\ response["full_citation"].style_id = STYLE_MAPPING[response["style"]]

OptionalOf ==
    [title |-> "title", author |-> "authors", issued |-> "published_date",
     publisher |-> "publisher"]

\* C14: for every bag the aggregation returns, convert_to_csl_json returns a
\* record without raising; the record has id (the normalized identifier) and
\* type (book for an ISBN), has no title, author, issued or publisher that the
\* bag lacks, and for an ISBN bag without any provider contribution is
\* exactly {id, type: book, ISBN}.
C14_BuilderNeverFails ==
    pc = "fetched" =>
       LET built == convert_to_csl_json(fm_metadata)
           csl == built.csl
       IN  /\ built.raised = "None"
           /\ {"id", "type"} \subseteq DOMAIN csl
           /\ csl["id"] = fm_metadata["identifier"]
           /\ csl["type"] \in CSL_TYPES
           /\ gc_identifier_type = "isbn" => csl["type"] = "book"
           /\ \A f \in DOMAIN OptionalOf :
                 (OptionalOf[f] \notin DOMAIN fm_metadata
                    /\ (gc_identifier_type = "isbn" \/ "crossref" \notin DOMAIN fm_metadata))
                 => f \notin DOMAIN csl
           /\ (gc_identifier_type = "isbn" /\ fm_metadata["sources"] = <<>>) =>
                 csl = ("id" :> fm_metadata["identifier"]) @@ ("type" :> "book")
                          @@ ("ISBN" :> fm_metadata["identifier"])

\* C15: an aggregation that has started comes to its end (fetch_metadata
\* returns or raises), also when a provider it calls never answers.
C15_AggregationTerminates ==
    \A h \in Handlers :
       (handlers[h].pc \in {"crossref", "datacite", "unpaywall",
                            "openlibrary", "google_books", "worldcat", "isbndb"})
          ~> (handlers[h].pc \in {"fetched", "raised", "done"})

RESPONSE_FIELDS ==
    {"identifier", "identifier_type", "style", "full_citation", "parenthetical",
     "narrative", "timestamp"}

\* C16: whatever the interleaving of the generate_citation calls, every entry
\* of citation_cache is a complete response, and its key is its identifier
\* field, a colon, and its style field.
C16_CacheNeverCorrupted ==
    \A k \in DOMAIN citation_cache :
       /\ DOMAIN citation_cache[k] = RESPONSE_FIELDS
       /\ k = citation_cache[k]["identifier"] \o <<":">> \o citation_cache[k]["style"]
       /\ citation_cache[k]["identifier_type"] \in {"doi", "isbn"}

\* two calls for the same identifier and style both went to the providers and
\* both wrote the entry
C16_Witness ==
    /\ handlers["h1"].status = 200 /\ handlers["h2"].status = 200
    /\ handlers["h1"].calls # <<>> /\ handlers["h2"].calls # <<>>
    /\ handlers["h1"].identifier = handlers["h2"].identifier
    /\ handlers["h1"].style = handlers["h2"].style
    /\ handlers["h1"].identifier \o <<":">> \o handlers["h1"].style \in DOMAIN citation_cache

\* the fields a provider can contribute to a bag
ContributedFields == LogicalFields \cup {"type", "open_access_url"}

\* some contributed field of the bag after differs from the bag before
Contributed(before, after) ==
    \E f \in ContributedFields \cap DOMAIN after :
        f \notin DOMAIN before \/ after[f] # before[f]

\* C17: a provider section appends the provider's name to sources exactly
\* when it contributed a field to the bag, and otherwise leaves sources as it
\* was; so sources names each provider at most once, in the order of the
\* calls.  (ISBNdb, which writes over fields already set, is only required
\* to be listed when it changed one.)
C17_SourcesNameContributors ==
    [][(Aggregating /\ pc' \in {"datacite", "unpaywall", "google_books", "worldcat",
                                "isbndb", "fetched"}
          /\ calls' # calls) =>
          IF pc = "isbndb"
          THEN /\ fm_metadata'["sources"] \in {fm_metadata["sources"],
                                               Append(fm_metadata["sources"], pc)}
               /\ Contributed(IsbnDefaultType(fm_metadata), fm_metadata') =>
                     fm_metadata'["sources"] = Append(fm_metadata["sources"], pc)
          ELSE fm_metadata'["sources"] =
                  IF Contributed(fm_metadata, fm_metadata')
                  THEN Append(fm_metadata["sources"], pc)
                  ELSE fm_metadata["sources"]]_vars

\* C18: whenever a bag has published_date, it is {date-parts: [[year, ...]]}
\* and the year is a run of four digits: a date string without a four-digit
\* year sets no published_date, and no other text is ever stored as the year.
C18_PublishedDateShape ==
    "published_date" \in DOMAIN fm_metadata =>
       LET published_date == fm_metadata["published_date"]
       IN  /\ DOMAIN published_date = {"date-parts"}
           /\ Len(published_date["date-parts"]) >= 1
           /\ Len(published_date["date-parts"][1]) >= 1
           /\ Len(published_date["date-parts"][1][1]) = YEAR_DIGITS
           /\ IsDigitString(published_date["date-parts"][1][1])

\* what the record's edition must be for the edition string s: its leading
\* digits when it begins with digits (the form "<digits> edition" included),
\* nothing when it has no digit, and never anything but a digit string
EditionFrom(s, csl) ==
    /\ DigitRun(s) > 0 =>
          "edition" \in DOMAIN csl /\ csl["edition"] = SubSeq(s, 1, DigitRun(s))
    /\ (\A i \in 1..Len(s) : s[i] \notin Digits) => "edition" \notin DOMAIN csl
    /\ "edition" \in DOMAIN csl => IsDigitString(csl["edition"])

\* C19: the edition of an ISBN record is the one extracted from the edition
\* string of the bag, whether Open Library (edition_name), Google Books
\* (edition) or both supplied one; without an edition string there is none.
C19_EditionExtraction ==
    (record # NoRecord /\ GetOr(bag, "identifier_type", "None") = "isbn"
        /\ record.raised = "None") =>
       LET fromOpenlibrary == HasProvider(bag, "openlibrary", "edition_name")
           fromGoogle == HasProvider(bag, "google_books", "edition")
       IN  IF fromOpenlibrary /\ fromGoogle
           THEN \/ EditionFrom(bag["openlibrary"]["edition_name"], record.csl)
                \/ EditionFrom(bag["google_books"]["edition"], record.csl)
           ELSE IF fromOpenlibrary
           THEN EditionFrom(bag["openlibrary"]["edition_name"], record.csl)
           ELSE IF fromGoogle
           THEN EditionFrom(bag["google_books"]["edition"], record.csl)
           ELSE "edition" \notin DOMAIN record.csl

\* the author of a plain name: family is the last whitespace-delimited token,
\* given the tokens before it joined by single spaces
AuthorOfName(a) ==
    LET tokens == SplitWs(a)
    IN  IF tokens = <<>> THEN [family |-> <<>>, given |-> <<>>]
        ELSE [family |-> tokens[Len(tokens)],
              given |-> JoinSpaces(SubSeq(tokens, 1, Len(tokens) - 1))]

\* the plain author names in a provider's answer, in the order of the answer
SourceNames(api_name, json) ==
    CASE api_name = "openlibrary" ->
            [i \in 1..Len(json[BIBKEY]["authors"]) |->
                GetOr(json[BIBKEY]["authors"][i], "name", <<>>)]
      [] api_name = "google_books" -> json["items"][1]["volumeInfo"]["authors"]
      [] api_name = "worldcat" -> SplitOn(json["list"][1]["author"], ";")
      [] api_name = "isbndb" -> json["book"]["authors"]

\* C20: when a provider section sets the authors of the bag from plain names,
\* the authors are the authors of those names (of the segments between
\* semicolons for WorldCat), one per name and in the same order.
C20_AuthorNameSplitting ==
    [][(pc \in {"openlibrary", "google_books", "worldcat", "isbndb"}
          /\ calls' # calls /\ pc' # "raised"
          /\ "authors" \in DOMAIN fm_metadata'
          /\ ("authors" \notin DOMAIN fm_metadata
                \/ fm_metadata'["authors"] # fm_metadata["authors"])) =>
          fm_metadata'["authors"] =
             [i \in 1..Len(SourceNames(pc, data'[pc])) |->
                 AuthorOfName(SourceNames(pc, data'[pc])[i])]]_vars

\* C21: a call of fetch_from_api leaves API_CONFIG as it was, and the
\* parameters of a request depend only on the arguments of the call: two
\* calls with the same api_name, identifier and additional_params send the
\* same parameters.
C21_FetchLeavesConfig ==
    /\ \A i \in 1..Len(sent) : \A j \in 1..Len(sent) :
          (/\ sent[i].api_name = sent[j].api_name
           /\ sent[i].identifier = sent[j].identifier
           /\ sent[i].additional_params = sent[j].additional_params)
          => sent[i].params = sent[j].params
    /\ \A api_name \in DOMAIN API_CONFIG :
          GetOr(API_CONFIG[api_name], "params", EmptyDict)
             = GetOr(API_CONFIG_INITIAL[api_name], "params", EmptyDict)

\* C22: clean_identifier is idempotent: cleaning the cleaned string again
\* gives the cleaned string.
C22_CleanIdempotent ==
    cleaned # NotRun => clean_identifier(cleaned) = cleaned

\* the cache key of the request a call serves: identifier, colon, style
KeyOf(handler) == handler.identifier \o <<":">> \o handler.style

\* C23: a call that ends in 400 or 404 leaves citation_cache unchanged; the
\* cache changes only by a call that ends in 200 for a well-formed identifier
\* for which a provider answered, and then by that call's response under its
\* key; and a call whose key is cached when it arrives returns the stored
\* response without any provider call and without writing the cache.
C23_CacheWrittenOnSuccessOnly ==
    [][/\ \A h \in Handlers :
            (handlers[h].status = 0 /\ handlers'[h].status \in {400, 404})
               => citation_cache' = citation_cache
       /\ \A h \in Handlers :
            (/\ handlers[h].pc = "idle"
             /\ handlers'[h].request # NoRequest
             /\ KeyOf(handlers'[h]) \in DOMAIN citation_cache)
            => /\ handlers'[h].pc = "done"
               /\ handlers'[h].status = 200
               /\ handlers'[h].response = citation_cache[KeyOf(handlers'[h])]
               /\ handlers'[h].calls = <<>>
               /\ citation_cache' = citation_cache
       /\ citation_cache' # citation_cache =>
            \E h \in Handlers :
               /\ handlers[h].status = 0 /\ handlers'[h].status = 200
               /\ ~Malformed(handlers'[h].request["identifier"])
               /\ handlers'[h].calls # <<>>
               /\ handlers'[h].metadata["sources"] # <<>>
               /\ citation_cache' =
                     Put(citation_cache, KeyOf(handlers'[h]), handlers'[h].response)]_vars

\* one call was answered from the providers and cached, a later call for
\* another key ended in 404, and the cache holds the first call's entry only
C23_Witness ==
    /\ handlers["h1"].status = 200 /\ handlers["h1"].calls # <<>>
    /\ handlers["h2"].status = 404
    /\ DOMAIN citation_cache = {KeyOf(handlers["h1"])}
    /\ citation_cache[KeyOf(handlers["h1"])] = handlers["h1"].response

=============================================================================
